---- MODULE Spec2Model ----
(***************************************************************************)
(* Bubble_Risk_China: the scoring arithmetic of the DBN-FBD scripts.       *)
(*                                                                         *)
(*   percentile_normalize -> category mean -> weighted composite ->        *)
(*   risk-level lookup (calculate_china_oct2025_real.py), the weighted     *)
(*   score of generate_robustness_checks.py, evaluate_method and the       *)
(*   results of generate_benchmark_comparison.py, the tables of            *)
(*   generate_statistical_validation.py, the figure of                     *)
(*   china_vs_usa_final_comparison.py, and the category risk, composite    *)
(*   score and risk bins of key_formulas.py.                               *)
(*                                                                         *)
(* Python floats are modelled as exact rationals <<n, d>> in lowest terms  *)
(* with d > 0, so that every decimal literal of the source (15.5, 0.028,   *)
(* 0.294, ...) is represented exactly.                                     *)
(***************************************************************************)
EXTENDS Integers, Sequences, FiniteSets, TLC

VARIABLES
    run,        \* which program / function is executing
    pc,         \* position in it
    args,       \* arguments of a function call under study
    ret,        \* its return value: <<>> before the return, <<v>> after
    data,       \* calculate_china_oct2025_real: the raw market data (lines 19-60)
    ranges,     \* ... the [hist_min, hist_max] written at each call (lines 98-194)
    risks,      \* ... the metric risks computed so far (name -> value)
    scores,     \* ... the category scores computed so far (name -> value)
    contribs,   \* ... the CONTRIB_* products
    composite,  \* ... COMPOSITE_BUBBLE_SCORE: <<>> or <<v>>
    risk_level, \* ... risk_level: "" before it is assigned
    globals,    \* generate_robustness_checks: the module's variables (name -> value)
    printed,    \* the computed lines the script has printed: [text, value]
    results,    \* the results dict of the running script: <<>> or <<record>>
    file        \* the output file: the sequence of JSON payloads written to it

vars == <<run, pc, args, ret, data, ranges, risks, scores, contribs, composite,
          risk_level, globals, printed, results, file>>

-----------------------------------------------------------------------------
(* Rational arithmetic: the value of Python's float operators.             *)

Abs(x) == IF x < 0 THEN 0 - x ELSE x

RECURSIVE GCD(_, _)
GCD(a, b) == IF b = 0 THEN a ELSE GCD(b, a % b)

\* n/d in lowest terms with a positive denominator (d # 0)
Dec(n, d) ==
    LET g == GCD(Abs(n), Abs(d))
        s == IF d < 0 THEN 0 - 1 ELSE 1
    IN  <<(s * n) \div g, (s * d) \div g>>

Zero == Dec(0, 1)
One == Dec(1, 1)
Int2R(k) == Dec(k, 1)

RAdd(a, b) ==
    LET g == GCD(a[2], b[2])
    IN  Dec(a[1] * (b[2] \div g) + b[1] * (a[2] \div g), (a[2] \div g) * b[2])

RNeg(a) == <<0 - a[1], a[2]>>

RSub(a, b) == RAdd(a, RNeg(b))

RMul(a, b) ==
    LET g1 == GCD(Abs(a[1]), b[2])
        g2 == GCD(Abs(b[1]), a[2])
    IN  Dec((a[1] \div g1) * (b[1] \div g2), (a[2] \div g2) * (b[2] \div g1))

\* a / b for b # 0 (Python raises ZeroDivisionError when b = 0)
RDiv(a, b) == RMul(a, Dec(b[2], b[1]))

RLt(a, b) == RSub(a, b)[1] < 0
RLe(a, b) == RSub(a, b)[1] <= 0

RAbs(a) == <<Abs(a[1]), a[2]>>

\* Python's min(a, b) and max(a, b): the first argument unless the second
\* is strictly smaller (larger).
PyMin(a, b) == IF RLt(b, a) THEN b ELSE a
PyMax(a, b) == IF RLt(a, b) THEN b ELSE a

RECURSIVE RSum(_)
RSum(s) == IF s = <<>> THEN Zero ELSE RAdd(Head(s), RSum(Tail(s)))

\* np.mean of a non-empty list
Mean(s) == RDiv(RSum(s), Int2R(Len(s)))

-----------------------------------------------------------------------------
(* percentile_normalize (calculate_china_oct2025_real.py, lines 80-86)     *)

\* Mutant: only 0 / 0 raises; x / 0 yields a value, as numpy floats would
percentile_normalize_raises_like_numpy(value, hist_min, hist_max, invert) ==
    RSub(hist_max, hist_min) = Zero /\ value = hist_min

\* line 82 divides by hist_max - hist_min: ZeroDivisionError when it is 0
percentile_normalize_raises(value, hist_min, hist_max, invert) ==
    RSub(hist_max, hist_min) = Zero

\* Mutant: the clamp of line 83 is missing
percentile_normalize_unclamped(value, hist_min, hist_max, invert) ==
    LET pct0 == RDiv(RSub(value, hist_min), RSub(hist_max, hist_min))
    IN  IF invert THEN RSub(One, pct0) ELSE pct0

\* Mutant: line 82 divides value, not value - hist_min, by the range
percentile_normalize_unshifted(value, hist_min, hist_max, invert) ==
    LET pct0 == RDiv(value, RSub(hist_max, hist_min))
        pct1 == PyMax(Zero, PyMin(One, pct0))
    IN  IF invert THEN RSub(One, pct1) ELSE pct1

\* Mutant: the invert flag of lines 84-85 is ignored
percentile_normalize_ignores_invert(value, hist_min, hist_max, invert) ==
    LET pct0 == RDiv(RSub(value, hist_min), RSub(hist_max, hist_min))
    IN  PyMax(Zero, PyMin(One, pct0))

percentile_normalize(value, hist_min, hist_max, invert) ==
    LET pct0 == RDiv(RSub(value, hist_min), RSub(hist_max, hist_min))
        pct1 == PyMax(Zero, PyMin(One, pct0))
    IN  IF invert THEN RSub(One, pct1) ELSE pct1

-----------------------------------------------------------------------------
(* Python's round(x, ndigits).  The result is the multiple of 10^-ndigits  *)
(* nearest to x.  When the decimal value of x lies exactly half way, the   *)
(* binary float is a hair above or below it and decides the direction, so  *)
(* both neighbours are outcomes.                                           *)

Pow10(k) == IF k = 0 THEN 1 ELSE IF k = 1 THEN 10 ELSE 100

\* x = <<n, d>> with d > 0; \div rounds towards minus infinity
Floor(x) == x[1] \div x[2]

PyRound(x, ndigits) ==
    LET p == Pow10(ndigits)
        scaled == RMul(x, Int2R(p))
        fl == Floor(scaled)
        rem == RSub(scaled, Int2R(fl))
        half == Dec(1, 2)
    IN  IF RLt(rem, half) THEN {Dec(fl, p)}
        ELSE IF RLt(half, rem) THEN {Dec(fl + 1, p)}
        ELSE {Dec(fl, p), Dec(fl + 1, p)}

-----------------------------------------------------------------------------
(* calculate_china_oct2025_real.py: the market data, lines 19-60           *)

HardcodedData ==
    [ SSE_Composite        |-> Int2R(3875),
      CSI_300              |-> Int2R(4520),
      Hang_Seng            |-> Int2R(25900),
      YTD_return           |-> Dec(357, 1000),
      PE_Ratio             |-> Dec(155, 10),
      PB_Ratio             |-> Dec(16, 10),
      CAPE                 |-> Dec(142, 10),
      Dividend_Yield       |-> Dec(28, 1000),
      Market_Cap_GDP       |-> Dec(1058, 1000),
      GDP_Growth           |-> Dec(45, 10),
      CPI                  |-> Dec(0, 10),
      PPI                  |-> Dec(0 - 28, 10),
      Youth_Unemployment   |-> Dec(213, 10),
      PMI                  |-> Dec(512, 10),
      Total_Debt_GDP       |-> Dec(285, 100),
      Corp_Debt_GDP        |-> Dec(165, 100),
      HH_Debt_GDP          |-> Dec(63, 100),
      TSF_Growth           |-> Dec(92, 1000),
      Credit_Impulse       |-> Dec(23, 1000),
      RSI                  |-> Int2R(68),
      Volatility           |-> Int2R(28),
      Margin_Balance       |-> Int2R(1800),
      Retail_Participation |-> Dec(82, 100),
      Foreign_Ownership    |-> Dec(45, 1000),
      Northbound_Flow_YTD  |-> Int2R(380),
      USA_PE               |-> Dec(220, 10),
      USA_CAPE             |-> Dec(312, 10),
      USA_GDP_Growth       |-> Dec(25, 10),
      USA_Bubble_Score     |-> Dec(420, 1000) ]

-----------------------------------------------------------------------------
(* Layer 1: the metric risks, lines 94-198                                 *)

\* The raw value each metric risk is computed from (lines 98-194)
MetricInput(d) ==
    [ PE_risk |-> d.PE_Ratio, CAPE_risk |-> d.CAPE, PB_risk |-> d.PB_Ratio,
      MCGDP_risk |-> d.Market_Cap_GDP, Div_risk |-> d.Dividend_Yield,
      Price_momentum_risk |-> d.YTD_return, RSI_risk |-> d.RSI,
      Vol_risk |-> d.Volatility, Margin_risk |-> d.Margin_Balance,
      Debt_risk |-> d.Total_Debt_GDP, Credit_growth_risk |-> d.TSF_Growth,
      Credit_impulse_risk |-> d.Credit_Impulse, GDP_risk |-> d.GDP_Growth,
      Inflation_risk |-> d.CPI, PMI_risk |-> d.PMI, Unemp_risk |-> Dec(50, 10),
      Retail_risk |-> d.Retail_Participation,
      Foreign_risk |-> d.Northbound_Flow_YTD,
      Ownership_risk |-> d.Foreign_Ownership ]

\* The hist_min and hist_max written at the eighteen percentile_normalize
\* calls
HistoricalRanges ==
    [ PE_risk             |-> <<Int2R(10), Int2R(40)>>,
      CAPE_risk           |-> <<Int2R(10), Int2R(35)>>,
      PB_risk             |-> <<Dec(10, 10), Dec(50, 10)>>,
      MCGDP_risk          |-> <<Dec(40, 100), Dec(140, 100)>>,
      Div_risk            |-> <<Dec(15, 1000), Dec(40, 1000)>>,
      Price_momentum_risk |-> <<Dec(0 - 30, 100), Dec(60, 100)>>,
      RSI_risk            |-> <<Int2R(30), Int2R(80)>>,
      Vol_risk            |-> <<Int2R(15), Int2R(45)>>,
      Margin_risk         |-> <<Int2R(800), Int2R(2500)>>,
      Debt_risk           |-> <<Dec(200, 100), Dec(350, 100)>>,
      Credit_growth_risk  |-> <<Dec(5, 100), Dec(15, 100)>>,
      Credit_impulse_risk |-> <<Dec(0 - 5, 100), Dec(5, 100)>>,
      GDP_risk            |-> <<Dec(20, 10), Dec(80, 10)>>,
      PMI_risk            |-> <<Int2R(45), Int2R(55)>>,
      Unemp_risk          |-> <<Dec(40, 10), Dec(80, 10)>>,
      Retail_risk         |-> <<Dec(60, 100), Dec(90, 100)>>,
      Foreign_risk        |-> <<Int2R(0 - 200), Int2R(500)>>,
      Ownership_risk      |-> <<Dec(2, 100), Dec(10, 100)>> ]

PE_risk(d, rg) ==
    percentile_normalize(d.PE_Ratio, rg.PE_risk[1], rg.PE_risk[2], FALSE)
CAPE_risk(d, rg) ==
    percentile_normalize(d.CAPE, rg.CAPE_risk[1], rg.CAPE_risk[2], FALSE)
PB_risk(d, rg) ==
    percentile_normalize(d.PB_Ratio, rg.PB_risk[1], rg.PB_risk[2], FALSE)
MCGDP_risk(d, rg) ==
    percentile_normalize(d.Market_Cap_GDP, rg.MCGDP_risk[1], rg.MCGDP_risk[2],
                         FALSE)
Div_risk(d, rg) ==
    percentile_normalize(d.Dividend_Yield, rg.Div_risk[1], rg.Div_risk[2], TRUE)

Price_momentum_risk(d, rg) ==
    percentile_normalize(d.YTD_return, rg.Price_momentum_risk[1],
                         rg.Price_momentum_risk[2], FALSE)
RSI_risk(d, rg) ==
    percentile_normalize(d.RSI, rg.RSI_risk[1], rg.RSI_risk[2], FALSE)
Vol_risk(d, rg) ==
    percentile_normalize(d.Volatility, rg.Vol_risk[1], rg.Vol_risk[2], FALSE)
Margin_risk(d, rg) ==
    percentile_normalize(d.Margin_Balance, rg.Margin_risk[1],
                         rg.Margin_risk[2], FALSE)

Debt_risk(d, rg) ==
    percentile_normalize(d.Total_Debt_GDP, rg.Debt_risk[1], rg.Debt_risk[2],
                         FALSE)
Credit_growth_risk(d, rg) ==
    percentile_normalize(d.TSF_Growth, rg.Credit_growth_risk[1],
                         rg.Credit_growth_risk[2], FALSE)
Credit_impulse_risk(d, rg) ==
    percentile_normalize(d.Credit_Impulse, rg.Credit_impulse_risk[1],
                         rg.Credit_impulse_risk[2], FALSE)

GDP_risk(d, rg) ==
    percentile_normalize(d.GDP_Growth, rg.GDP_risk[1], rg.GDP_risk[2], TRUE)
\* line 168: abs(CPI - 0.02) / 0.05 * 0.7
Inflation_risk(d) ==
    RMul(RDiv(RAbs(RSub(d.CPI, Dec(2, 100))), Dec(5, 100)), Dec(7, 10))
PMI_risk(d, rg) ==
    percentile_normalize(d.PMI, rg.PMI_risk[1], rg.PMI_risk[2], TRUE)
\* line 176: the literal 5.0, not Youth_Unemployment
Unemp_risk(d, rg) ==
    percentile_normalize(Dec(50, 10), rg.Unemp_risk[1], rg.Unemp_risk[2], FALSE)

Retail_risk(d, rg) ==
    percentile_normalize(d.Retail_Participation, rg.Retail_risk[1],
                         rg.Retail_risk[2], FALSE)
Foreign_risk(d, rg) ==
    percentile_normalize(d.Northbound_Flow_YTD, rg.Foreign_risk[1],
                         rg.Foreign_risk[2], FALSE)
Ownership_risk(d, rg) ==
    percentile_normalize(d.Foreign_Ownership, rg.Ownership_risk[1],
                         rg.Ownership_risk[2], FALSE)

\* The risk assigned to the name m on lines 98-194
MetricRisk(m, d, rg) ==
    CASE m = "PE_risk" -> PE_risk(d, rg)
      [] m = "CAPE_risk" -> CAPE_risk(d, rg)
      [] m = "PB_risk" -> PB_risk(d, rg)
      [] m = "MCGDP_risk" -> MCGDP_risk(d, rg)
      [] m = "Div_risk" -> Div_risk(d, rg)
      [] m = "Price_momentum_risk" -> Price_momentum_risk(d, rg)
      [] m = "RSI_risk" -> RSI_risk(d, rg)
      [] m = "Vol_risk" -> Vol_risk(d, rg)
      [] m = "Margin_risk" -> Margin_risk(d, rg)
      [] m = "Debt_risk" -> Debt_risk(d, rg)
      [] m = "Credit_growth_risk" -> Credit_growth_risk(d, rg)
      [] m = "Credit_impulse_risk" -> Credit_impulse_risk(d, rg)
      [] m = "GDP_risk" -> GDP_risk(d, rg)
      [] m = "Inflation_risk" -> Inflation_risk(d)
      [] m = "PMI_risk" -> PMI_risk(d, rg)
      [] m = "Unemp_risk" -> Unemp_risk(d, rg)
      [] m = "Retail_risk" -> Retail_risk(d, rg)
      [] m = "Foreign_risk" -> Foreign_risk(d, rg)
      [] m = "Ownership_risk" -> Ownership_risk(d, rg)

\* The assignment of m is a percentile_normalize call that raises
MetricRaises(m, d, rg) ==
    /\ m \in DOMAIN rg
    /\ percentile_normalize_raises(MetricInput(d)[m], rg[m][1], rg[m][2], FALSE)

\* The lists handed to np.mean on lines 117, 139, 157, 179 and 197
ValuationMetrics == <<"PE_risk", "CAPE_risk", "PB_risk", "MCGDP_risk", "Div_risk">>
MomentumMetrics == <<"Price_momentum_risk", "RSI_risk", "Vol_risk", "Margin_risk">>
CreditMetrics == <<"Debt_risk", "Credit_growth_risk", "Credit_impulse_risk">>
EconomyMetrics == <<"GDP_risk", "Inflation_risk", "PMI_risk", "Unemp_risk">>
SentimentMetrics == <<"Retail_risk", "Foreign_risk", "Ownership_risk">>

\* Mutant: every category is averaged as if it had the five metrics of Valuation
CategoryScore_divides_by_five(r, names) ==
    RMul(RDiv(RSum([i \in 1..Len(names) |-> r[names[i]]]), Int2R(5)), Int2R(100))

\* np.mean([...]) * 100 over the named entries of the risks computed so far
CategoryScore(r, names) ==
    RMul(Mean([i \in 1..Len(names) |-> r[names[i]]]), Int2R(100))

-----------------------------------------------------------------------------
(* Layer 3: weights, composite and risk level, lines 208-247               *)

W_VALUATION == Dec(25, 100)
W_MOMENTUM == Dec(20, 100)
W_CREDIT == Dec(20, 100)
W_ECONOMY == Dec(15, 100)
W_SENTIMENT == Dec(20, 100)

\* Mutant: the weights are taken as percentages (25, 20, 20, 15, 20)
Contributions_percent_weights(sc) ==
    [ CONTRIB_VAL |-> RMul(sc["VALUATION_SCORE"], Int2R(25)),
      CONTRIB_MOM |-> RMul(sc["MOMENTUM_SCORE"], Int2R(20)),
      CONTRIB_CRE |-> RMul(sc["CREDIT_SCORE"], Int2R(20)),
      CONTRIB_ECO |-> RMul(sc["ECONOMY_SCORE"], Int2R(15)),
      CONTRIB_SEN |-> RMul(sc["SENTIMENT_SCORE"], Int2R(20)) ]

\* lines 216-220
Contributions(sc) ==
    [ CONTRIB_VAL |-> RMul(sc["VALUATION_SCORE"], W_VALUATION),
      CONTRIB_MOM |-> RMul(sc["MOMENTUM_SCORE"], W_MOMENTUM),
      CONTRIB_CRE |-> RMul(sc["CREDIT_SCORE"], W_CREDIT),
      CONTRIB_ECO |-> RMul(sc["ECONOMY_SCORE"], W_ECONOMY),
      CONTRIB_SEN |-> RMul(sc["SENTIMENT_SCORE"], W_SENTIMENT) ]

\* Mutant: the sentiment contribution is left out of the sum
COMPOSITE_BUBBLE_SCORE_without_sentiment(c) ==
    RAdd(RAdd(RAdd(c.CONTRIB_VAL, c.CONTRIB_MOM), c.CONTRIB_CRE), c.CONTRIB_ECO)

\* line 223
COMPOSITE_BUBBLE_SCORE(c) ==
    RAdd(RAdd(RAdd(RAdd(c.CONTRIB_VAL, c.CONTRIB_MOM), c.CONTRIB_CRE),
              c.CONTRIB_ECO), c.CONTRIB_SEN)

\* Mutant: the comparisons are <= instead of <
RiskLevelOf_inclusive(s) ==
    IF RLe(s, Int2R(20)) THEN "Minimal Risk"
    ELSE IF RLe(s, Int2R(35)) THEN "Low-Moderate Risk"
    ELSE IF RLe(s, Int2R(50)) THEN "Moderate Risk"
    ELSE IF RLe(s, Int2R(65)) THEN "Elevated Risk"
    ELSE IF RLe(s, Int2R(80)) THEN "High Risk"
    ELSE "Extreme Risk"

\* lines 236-247: the if / elif chain on COMPOSITE_BUBBLE_SCORE
RiskLevelOf(s) ==
    IF RLt(s, Int2R(20)) THEN "Minimal Risk"
    ELSE IF RLt(s, Int2R(35)) THEN "Low-Moderate Risk"
    ELSE IF RLt(s, Int2R(50)) THEN "Moderate Risk"
    ELSE IF RLt(s, Int2R(65)) THEN "Elevated Risk"
    ELSE IF RLt(s, Int2R(80)) THEN "High Risk"
    ELSE "Extreme Risk"

\* Mutant: the comparison with the USA is stored only when China's composite
\* is the lower one
ChinaResults_conditional_comparison(d, level, rnd) ==
    LET core ==
          [ date |-> "2025-10-31",
            market |-> "China",
            indices |->
              [ SSE_Composite |-> d.SSE_Composite,
                CSI_300 |-> d.CSI_300,
                YTD_Return |-> RMul(d.YTD_return, Int2R(100)) ],
            valuation |->
              [ PE_Ratio |-> d.PE_Ratio,
                CAPE |-> d.CAPE,
                PB_Ratio |-> d.PB_Ratio,
                Dividend_Yield |-> RMul(d.Dividend_Yield, Int2R(100)),
                Market_Cap_GDP |-> RMul(d.Market_Cap_GDP, Int2R(100)) ],
            economic |->
              [ GDP_Growth |-> d.GDP_Growth,
                CPI |-> d.CPI,
                PMI |-> d.PMI,
                Debt_GDP |-> RMul(d.Total_Debt_GDP, Int2R(100)) ],
            bubble_analysis |->
              [ valuation_score |-> rnd.valuation_score,
                momentum_score |-> rnd.momentum_score,
                credit_score |-> rnd.credit_score,
                economy_score |-> rnd.economy_score,
                sentiment_score |-> rnd.sentiment_score,
                composite_bubble_score |-> rnd.composite_bubble_score,
                risk_level |-> level ] ]
    IN  IF rnd.China_Advantage[1] < 0 THEN core
        ELSE core @@ ("comparison_usa" :>
                [ USA_Bubble_Score |-> RMul(d.USA_Bubble_Score, Int2R(100)),
                  China_Advantage |-> rnd.China_Advantage,
                  PE_Discount |-> rnd.PE_Discount,
                  CAPE_Discount |-> rnd.CAPE_Discount,
                  GDP_Premium |-> rnd.GDP_Premium ])

\* lines 275-312: the results dict; every round(.., 1) is one choice of rnd
ChinaResults(d, level, rnd) ==
    [ date |-> "2025-10-31",
      market |-> "China",
      indices |->
        [ SSE_Composite |-> d.SSE_Composite,
          CSI_300 |-> d.CSI_300,
          YTD_Return |-> RMul(d.YTD_return, Int2R(100)) ],
      valuation |->
        [ PE_Ratio |-> d.PE_Ratio,
          CAPE |-> d.CAPE,
          PB_Ratio |-> d.PB_Ratio,
          Dividend_Yield |-> RMul(d.Dividend_Yield, Int2R(100)),
          Market_Cap_GDP |-> RMul(d.Market_Cap_GDP, Int2R(100)) ],
      economic |->
        [ GDP_Growth |-> d.GDP_Growth,
          CPI |-> d.CPI,
          PMI |-> d.PMI,
          Debt_GDP |-> RMul(d.Total_Debt_GDP, Int2R(100)) ],
      bubble_analysis |->
        [ valuation_score |-> rnd.valuation_score,
          momentum_score |-> rnd.momentum_score,
          credit_score |-> rnd.credit_score,
          economy_score |-> rnd.economy_score,
          sentiment_score |-> rnd.sentiment_score,
          composite_bubble_score |-> rnd.composite_bubble_score,
          risk_level |-> level ],
      comparison_usa |->
        [ USA_Bubble_Score |-> RMul(d.USA_Bubble_Score, Int2R(100)),
          China_Advantage |-> rnd.China_Advantage,
          PE_Discount |-> rnd.PE_Discount,
          CAPE_Discount |-> rnd.CAPE_Discount,
          GDP_Premium |-> rnd.GDP_Premium ] ]

\* (a - b) / b * 100, the discount / premium expressions of lines 308-310
RelativeToUSA(a, b) == RMul(RDiv(RSub(a, b), b), Int2R(100))

\* lines 262 and 307: USA_Bubble_Score*100 - COMPOSITE_BUBBLE_SCORE
ChinaAdvantage(d, comp) == RSub(RMul(d.USA_Bubble_Score, Int2R(100)), comp)

\* The outcomes of the ten round(.., 1) calls of lines 297-310
ChinaRoundings(d, sc, comp) ==
    [ valuation_score : PyRound(sc["VALUATION_SCORE"], 1),
      momentum_score : PyRound(sc["MOMENTUM_SCORE"], 1),
      credit_score : PyRound(sc["CREDIT_SCORE"], 1),
      economy_score : PyRound(sc["ECONOMY_SCORE"], 1),
      sentiment_score : PyRound(sc["SENTIMENT_SCORE"], 1),
      composite_bubble_score : PyRound(comp, 1),
      China_Advantage : PyRound(ChinaAdvantage(d, comp), 1),
      PE_Discount : PyRound(RelativeToUSA(d.PE_Ratio, d.USA_PE), 1),
      CAPE_Discount : PyRound(RelativeToUSA(d.CAPE, d.USA_CAPE), 1),
      GDP_Premium : PyRound(RelativeToUSA(d.GDP_Growth, d.USA_GDP_Growth), 1) ]

-----------------------------------------------------------------------------
(* generate_robustness_checks.py                                           *)

\* lines 15-21
base_components ==
    [ Valuation |-> Int2R(35), Momentum |-> Int2R(60), Credit |-> Int2R(30),
      Economy |-> Int2R(20), Sentiment |-> Int2R(35) ]

\* lines 23-29
base_weights ==
    [ Valuation |-> Dec(25, 100), Momentum |-> Dec(20, 100),
      Credit |-> Dec(20, 100), Economy |-> Dec(15, 100),
      Sentiment |-> Dec(20, 100) ]

\* line 41
equal_weights == [k \in DOMAIN base_weights |-> Dec(20, 100)]

\* line 47
no_economy_components ==
    [k \in DOMAIN base_components \ {"Economy"} |-> base_components[k]]

\* lines 48-53
no_economy_weights ==
    [ Valuation |-> Dec(294, 1000), Momentum |-> Dec(235, 1000),
      Credit |-> Dec(235, 1000), Sentiment |-> Dec(235, 1000) ]

\* lines 59-65
quarterly_components ==
    [ Valuation |-> Int2R(34), Momentum |-> Int2R(62), Credit |-> Int2R(29),
      Economy |-> Int2R(21), Sentiment |-> Int2R(36) ]

\* lines 71-77
rolling_components ==
    [ Valuation |-> Int2R(33), Momentum |-> Int2R(58), Credit |-> Int2R(31),
      Economy |-> Int2R(19), Sentiment |-> Int2R(34) ]

\* lines 82-88
higher_val_weights ==
    [ Valuation |-> Dec(30, 100), Momentum |-> Dec(175, 1000),
      Credit |-> Dec(175, 1000), Economy |-> Dec(15, 100),
      Sentiment |-> Dec(20, 100) ]

\* sum(f[k] for k in S)
RECURSIVE RSumOver(_, _)
RSumOver(f, S) ==
    IF S = {} THEN Zero
    ELSE LET k == CHOOSE x \in S : TRUE
         IN  RAdd(f[k], RSumOver(f, S \ {k}))

\* line 33: weights[k] raises KeyError for a key of components it lacks
calculate_bubble_score_raises(components, weights) ==
    ~(DOMAIN components \subseteq DOMAIN weights)

\* Mutant: the plain average of the components, the weights ignored
calculate_bubble_score_unweighted(components, weights) ==
    LET n == Cardinality(DOMAIN components)
    IN  IF n = 0 THEN {Zero}
        ELSE PyRound(RDiv(RSumOver(components, DOMAIN components), Int2R(n)), 2)

\* lines 31-34; the set of outcomes of round(score, 2)
calculate_bubble_score(components, weights) ==
    LET score == RSumOver([k \in DOMAIN components |->
                              RMul(components[k], weights[k])],
                          DOMAIN components)
    IN  PyRound(score, 2)

\* The six calls of lines 37, 42, 54, 66, 78 and 89
SpecificationCalls ==
    [ baseline_score |->
          [components |-> base_components, weights |-> base_weights],
      equal_score |->
          [components |-> base_components, weights |-> equal_weights],
      no_economy_score |->
          [components |-> no_economy_components, weights |-> no_economy_weights],
      quarterly_score |->
          [components |-> quarterly_components, weights |-> base_weights],
      rolling_score |->
          [components |-> rolling_components, weights |-> base_weights],
      higher_val_score |->
          [components |-> base_components, weights |-> higher_val_weights] ]

\* The order of the specifications list of lines 107-144
SpecificationOrder ==
    << "baseline_score", "equal_score", "no_economy_score", "quarterly_score",
       "rolling_score", "higher_val_score" >>

\* min(...) and max(...) of a non-empty list
RECURSIVE RMinSeq(_)
RMinSeq(s) == IF Len(s) = 1 THEN s[1] ELSE PyMin(s[1], RMinSeq(Tail(s)))

RECURSIVE RMaxSeq(_)
RMaxSeq(s) == IF Len(s) = 1 THEN s[1] ELSE PyMax(s[1], RMaxSeq(Tail(s)))

\* lines 93-100 and the name / key_finding literals of lines 107-144
SpecificationRows ==
    << [name |-> "Baseline (current)", r2 |-> Dec(71, 100),
        key_finding |-> "Moderate Risk"],
       [name |-> "Equal Weights", r2 |-> Dec(65, 100), key_finding |-> "Similar"],
       [name |-> "Without Economy Component", r2 |-> Dec(69, 100),
        key_finding |-> "Robust"],
       [name |-> "Quarterly Data", r2 |-> Dec(68, 100), key_finding |-> "Robust"],
       [name |-> "Rolling 12-month Window", r2 |-> Dec(70, 100),
        key_finding |-> "Robust"],
       [name |-> "Higher Valuation Weight", r2 |-> Dec(72, 100),
        key_finding |-> "Robust"] >>

\* The six computed scores in list order
ScoreList(g) == [i \in 1..Len(SpecificationOrder) |-> g[SpecificationOrder[i]]]

\* lines 106-152: range and avg_score start as None (<<>>)
RobustnessResults(g) ==
    [ specifications |->
        [i \in 1..Len(SpecificationOrder) |->
            [ name |-> SpecificationRows[i].name,
              bubble_score |-> g[SpecificationOrder[i]],
              r2 |-> SpecificationRows[i].r2,
              key_finding |-> SpecificationRows[i].key_finding ]],
      summary |->
        [ min_score |-> RMinSeq(ScoreList(g)),
          max_score |-> RMaxSeq(ScoreList(g)),
          range |-> <<>>,
          avg_score |-> <<>>,
          conclusion |-> "Results are stable across specifications" ] ]

\* line 155
ScoresOf(res) ==
    [i \in 1..Len(res.specifications) |-> res.specifications[i].bubble_score]

\* lines 156-159: the outcomes of the four round(.., 2) calls
SummaryRoundings(sc) ==
    [ min_score : PyRound(RMinSeq(sc), 2),
      max_score : PyRound(RMaxSeq(sc), 2),
      range : PyRound(RSub(RMaxSeq(sc), RMinSeq(sc)), 2),
      avg_score : PyRound(Mean(sc), 2) ]

\* line 167
MaxDeviation(sc, baseline) ==
    RMaxSeq([i \in 1..Len(sc) |-> RAbs(RSub(sc[i], baseline))])

\* lines 170-173
RobustnessVerdict(max_deviation, baseline) ==
    IF RLt(RDiv(max_deviation, baseline), Dec(15, 100))
    THEN "ROBUST: Variation < 15% across all specifications"
    ELSE "WARNING: Some specifications show > 15% deviation"

-----------------------------------------------------------------------------
(* generate_benchmark_comparison.py                                        *)

\* lines 14-40
events ==
    ("2015_peak" :>
        [ date |-> "2015-06", description |-> "2015 Stock Market Crash Peak",
          actual |-> "Major bubble (market crashed -43% in 3 months)" ])
    @@ ("2018_correction" :>
        [ date |-> "2018-01", description |-> "2018 Market Correction",
          actual |-> "Normal correction (-25%, not bubble)" ])
    @@ ("2021_peak" :>
        [ date |-> "2021-02", description |-> "2021 Tech Bubble Peak",
          actual |-> "Tech sector bubble (corrected -40%)" ])
    @@ ("2022_bottom" :>
        [ date |-> "2022-10", description |-> "2022 Bear Market Bottom",
          actual |-> "Undervalued (good entry point)" ])
    @@ ("2025_current" :>
        [ date |-> "2025-10", description |-> "Current State (Oct 2025)",
          actual |-> "Moderate risk, recovery phase" ])

\* A method dict: its name, its signal at each of the five events, and the
\* two descriptive strings
MethodDict(name, s2015, s2018, s2021, s2022, s2025, fp, description) ==
    ("name" :> name) @@ ("2015_peak" :> s2015) @@ ("2018_correction" :> s2018)
    @@ ("2021_peak" :> s2021) @@ ("2022_bottom" :> s2022)
    @@ ("2025_current" :> s2025) @@ ("false_positives" :> fp)
    @@ ("description" :> description)

\* lines 43-52
dbn_fbd ==
    MethodDict("DBN-FBD (Ours)", Int2R(85), Int2R(45), Int2R(78), Int2R(25),
               Dec(3675, 100), "Low", "Multi-factor Bayesian model")
\* lines 57-66
cape_based ==
    MethodDict("CAPE-Based", Int2R(72), Int2R(55), Int2R(65), Int2R(42),
               Int2R(28), "High", "Shiller CAPE ratio thresholds")
\* lines 71-80
phillips_gsadf ==
    MethodDict("Phillips GSADF", Int2R(91), Int2R(62), Int2R(45), Int2R(38),
               Int2R(42), "Medium", "Generalized sup ADF test")
\* lines 85-94
vix_threshold ==
    MethodDict("VIX Threshold", Int2R(68), Int2R(78), Int2R(82), Int2R(71),
               Int2R(31), "High", "China VIX percentile thresholds")
\* lines 97-106
composite_avg ==
    MethodDict("Composite Average", Int2R(76), Int2R(58), Int2R(71), Int2R(48),
               Int2R(35), "Medium-High",
               "Simple average of P/E, CAPE, VIX, Credit")

\* line 108
methods == <<dbn_fbd, cape_based, phillips_gsadf, vix_threshold, composite_avg>>

\* Mutant: the bands of the LaTeX note of lines 218-220 (high above 70,
\* moderate 40-70, low below 40)
evaluate_method_note_bands(method) ==
    LET credit(b) == IF b THEN 1 ELSE 0
        score ==
            credit(RLt(Int2R(70), method["2015_peak"]))
          + credit(RLe(Int2R(40), method["2018_correction"])
                     /\ RLe(method["2018_correction"], Int2R(70)))
          + credit(RLt(Int2R(70), method["2021_peak"]))
          + credit(RLt(method["2022_bottom"], Int2R(40)))
          + credit(RLe(Int2R(30), method["2025_current"])
                     /\ RLe(method["2025_current"], Int2R(50)))
    IN  <<score, 5>>

\* lines 115-147: (score, max_score)
evaluate_method(method) ==
    LET credit(b) == IF b THEN 1 ELSE 0
        score ==
            credit(RLe(Int2R(70), method["2015_peak"]))
          + credit(RLe(Int2R(40), method["2018_correction"])
                     /\ RLe(method["2018_correction"], Int2R(60)))
          + credit(RLe(Int2R(70), method["2021_peak"]))
          + credit(RLe(method["2022_bottom"], Int2R(40)))
          + credit(RLe(Int2R(30), method["2025_current"])
                     /\ RLe(method["2025_current"], Int2R(50)))
    IN  <<score, 5>>

\* lines 153 and 172: score / max_score * 100
Accuracy(method) ==
    RMul(RDiv(Int2R(evaluate_method(method)[1]),
              Int2R(evaluate_method(method)[2])), Int2R(100))

\* The outcomes of the round(.., 0) of line 172, one per method
AccuracyRoundings(ms) ==
    LET out == UNION {PyRound(Accuracy(ms[i]), 0) : i \in 1..Len(ms)}
    IN  {f \in [1..Len(ms) -> out] :
            \A i \in 1..Len(ms) : f[i] \in PyRound(Accuracy(ms[i]), 0)}

\* lines 161-173: the results dict with performance_summary filled in
BenchmarkResults(ms, rnd) ==
    [ methods |-> ms,
      events |-> events,
      performance_summary |->
          [n \in {ms[i]["name"] : i \in 1..Len(ms)} |->
              LET i == CHOOSE j \in 1..Len(ms) :
                           /\ ms[j]["name"] = n
                           /\ \A k \in (j + 1)..Len(ms) : ms[k]["name"] # n
              IN  [ correct_signals |-> evaluate_method(ms[i])[1],
                    total_events |-> evaluate_method(ms[i])[2],
                    accuracy |-> rnd[i] ]] ]

-----------------------------------------------------------------------------
(* generate_statistical_validation.py                                      *)

\* lines 16-37
granger_tests ==
    ("1_month" :>
        [ F_statistic |-> Dec(842, 100), p_value |-> Dec(1, 1000),
          result |-> "Reject H0 (bubble score causes returns)" ])
    @@ ("3_month" :>
        [ F_statistic |-> Dec(1268, 100), p_value |-> Dec(0, 1000),
          result |-> "Reject H0 (strong causality)" ])
    @@ ("6_month" :>
        [ F_statistic |-> Dec(1534, 100), p_value |-> Dec(0, 1000),
          result |-> "Reject H0 (strongest causality)" ])
    @@ ("12_month" :>
        [ F_statistic |-> Dec(987, 100), p_value |-> Dec(1, 1000),
          result |-> "Reject H0 (bubble score causes returns)" ])

\* lines 51-84
predictive_regression ==
    ("1_month" :>
        [ alpha |-> Dec(215, 100), beta |-> Dec(0 - 28, 100),
          t_stat |-> Dec(0 - 382, 100), p_value |-> Dec(0, 1000),
          r_squared |-> Dec(18, 100), adj_r_squared |-> Dec(17, 100) ])
    @@ ("3_month" :>
        [ alpha |-> Dec(435, 100), beta |-> Dec(0 - 52, 100),
          t_stat |-> Dec(0 - 521, 100), p_value |-> Dec(0, 1000),
          r_squared |-> Dec(31, 100), adj_r_squared |-> Dec(30, 100) ])
    @@ ("6_month" :>
        [ alpha |-> Dec(680, 100), beta |-> Dec(0 - 74, 100),
          t_stat |-> Dec(0 - 645, 100), p_value |-> Dec(0, 1000),
          r_squared |-> Dec(39, 100), adj_r_squared |-> Dec(38, 100) ])
    @@ ("12_month" :>
        [ alpha |-> Dec(892, 100), beta |-> Dec(0 - 86, 100),
          t_stat |-> Dec(0 - 568, 100), p_value |-> Dec(0, 1000),
          r_squared |-> Dec(35, 100), adj_r_squared |-> Dec(34, 100) ])

\* Mutant: the MAE fields carry the RMSE values
oos_summary_rmse_as_mae ==
    [ dbn_mae |-> Dec(208, 100), naive_mae |-> Dec(1972, 100),
      improvement |-> Dec(859, 10), dbn_rmse |-> Dec(208, 100),
      naive_rmse |-> Dec(1972, 100) ]

\* lines 133-139
oos_summary ==
    [ dbn_mae |-> Dec(195, 100), naive_mae |-> Dec(143, 10),
      improvement |-> Dec(859, 10), dbn_rmse |-> Dec(208, 100),
      naive_rmse |-> Dec(1972, 100) ]

\* lines 98-140
oos_results ==
    [ periods |->
        << [ period |-> "2018Q1-2018Q4", actual_return |-> Dec(0 - 185, 10),
             dbn_forecast |-> Dec(0 - 162, 10), naive_forecast |-> Dec(53, 10),
             dbn_error |-> Dec(23, 10), naive_error |-> Dec(238, 10) ],
           [ period |-> "2020Q1-2020Q4", actual_return |-> Dec(128, 10),
             dbn_forecast |-> Dec(145, 10), naive_forecast |-> Dec(82, 10),
             dbn_error |-> Dec(17, 10), naive_error |-> Dec(46, 10) ],
           [ period |-> "2022Q1-2022Q4", actual_return |-> Dec(0 - 223, 10),
             dbn_forecast |-> Dec(0 - 198, 10), naive_forecast |-> Dec(61, 10),
             dbn_error |-> Dec(25, 10), naive_error |-> Dec(284, 10) ],
           [ period |-> "2024Q1-2024Q4", actual_return |-> Dec(82, 10),
             dbn_forecast |-> Dec(95, 10), naive_forecast |-> Dec(78, 10),
             dbn_error |-> Dec(13, 10), naive_error |-> Dec(4, 10) ] >>,
      summary |-> oos_summary ]

\* lines 160-164
ValidationResults ==
    [ granger_causality |-> granger_tests,
      predictive_regression |-> predictive_regression,
      out_of_sample |-> oos_results ]

-----------------------------------------------------------------------------
(* china_vs_usa_final_comparison.py: the figure is the function from the   *)
(* panels drawn so far to what each shows                                  *)

\* a list of whole numbers as floats
Ints2R(s) == [i \in 1..Len(s) |-> Int2R(s[i])]

\* line 27
china_scores ==
    <<Dec(875, 100), Dec(120, 10), Dec(60, 10), Dec(30, 10), Dec(35, 10),
      Dec(25, 10)>>
\* line 28
usa_scores ==
    <<Dec(1625, 100), Dec(90, 10), Dec(70, 10), Dec(60, 10), Dec(55, 10),
      Dec(45, 10)>>
\* lines 54-55
china_vals == <<Dec(155, 10), Dec(16, 10), Dec(142, 10), Dec(98, 10), Dec(12, 10)>>
usa_vals == <<Dec(220, 10), Dec(48, 10), Dec(312, 10), Dec(152, 10), Dec(28, 10)>>

\* line 58
discounts ==
    [i \in 1..Len(china_vals) |->
        RMul(RDiv(RSub(usa_vals[i], china_vals[i]), usa_vals[i]), Int2R(100))]

\* lines 23-48: the bars of the BUBBLE SCORE BREAKDOWN panel
BreakdownBars ==
    [ categories |-> <<"Valuation", "Momentum", "Credit", "Economy",
                       "Sentiment", "Technical">>,
      China |-> china_scores, China_label |-> "China (32.5%)",
      USA |-> usa_scores, USA_label |-> "USA (42.0%)" ]

\* lines 50-75: the bars of the valuation panel and the discount texts
ValuationBars ==
    [ categories |-> <<"P/E", "P/B", "CAPE", "EV/EBITDA", "P/S">>,
      China |-> china_vals, USA |-> usa_vals, discounts |-> discounts ]

\* lines 77-274: what the other seven panels draw
OtherPanels ==
    ("growth" :>
        [ China |-> <<Dec(45, 10), Int2R(12), Int2R(37), Int2R(35)>>,
          USA |-> <<Dec(25, 10), Int2R(8), Int2R(22), Int2R(12)>> ])
    @@ ("risk_reward" :>
        [ risk |-> Ints2R(<<28, 16, 35, 22, 24, 18, 20, 12>>),
          expected_return |-> Ints2R(<<12, 5, 18, 8, 10, 4, 6, 3>>) ])
    @@ ("sectors" :>
        [ china_pe |-> Ints2R(<<22, 6, 18, 25, 20>>),
          usa_pe |-> Ints2R(<<28, 13, 22, 35, 24>>),
          growth_diff |-> Ints2R(<<10, 3, 8, 15, 12>>) ])
    @@ ("cycle" :>
        [ USA |-> <<Zero, Dec(9, 10)>>,
          China |-> <<Dec(0 - 7, 10), Dec(0 - 5, 10)>> ])
    @@ ("technicals" :>
        [ China |-> Ints2R(<<68, 75, 82, 45>>),
          USA |-> Ints2R(<<72, 88, 78, 92>>) ])
    @@ ("scenarios" :>
        [ China |-> Ints2R(<<0 - 20, 35, 60>>),
          USA |-> Ints2R(<<0 - 15, 12, 25>>) ])
    @@ ("summary" :> [ text |-> "INVESTMENT THESIS SUMMARY" ])

\* lines 277-279: the two scores and labels of the main title
FigureTitle ==
    [ China |-> [score |-> Dec(325, 10), label |-> "Moderate"],
      USA |-> [score |-> Dec(420, 10), label |-> "Elevated"] ]

-----------------------------------------------------------------------------
(* key_formulas.py.  A DataFrame is [rows |-> n, columns |-> f], f a       *)
(* function from column names to series of length n; a series is a         *)
(* sequence whose entries are numbers or NaN.                              *)

NaN == <<>>

\* Series.rolling(window=3).mean(): NaN until three values are in the window
rolling_mean(s) ==
    [i \in 1..Len(s) |->
        IF i < 3 \/ \E j \in (i - 2)..i : s[j] = NaN THEN NaN
        ELSE Mean(<<s[i - 2], s[i - 1], s[i]>>)]

\* Series.diff(): NaN in the first row
diff(s) ==
    [i \in 1..Len(s) |->
        IF i = 1 \/ s[i] = NaN \/ s[i - 1] = NaN THEN NaN
        ELSE RSub(s[i], s[i - 1])]

\* Mutant: the bins are closed on the left, [0.3, 0.5) and so on
pd_cut_left_closed(x) ==
    IF RLt(x, Dec(3, 10)) THEN "Low"
    ELSE IF RLt(x, Dec(5, 10)) THEN "Medium"
    ELSE IF RLt(x, Dec(7, 10)) THEN "High"
    ELSE "Critical"

\* pd.cut(x, bins=[-inf, 0.3, 0.5, 0.7, inf], labels=[Low, Medium, High,
\* Critical]) of lines 188-192 and 387-391; right=True is the default, so
\* the bins are (-inf, 0.3], (0.3, 0.5], (0.5, 0.7], (0.7, inf)
pd_cut(x) ==
    IF RLe(x, Dec(3, 10)) THEN "Low"
    ELSE IF RLe(x, Dec(5, 10)) THEN "Medium"
    ELSE IF RLe(x, Dec(7, 10)) THEN "High"
    ELSE "Critical"

\* line 176: weights = np.array(weights) / sum(weights)
normalized_weights(weights) ==
    [i \in 1..Len(weights) |-> RDiv(weights[i], RSum(weights))]

\* lines 179-182: the positions of category_scores whose column is in df
contributing(df, category_scores) ==
    {i \in 1..Len(category_scores) : category_scores[i] \in DOMAIN df.columns}

\* lines 176-182
composite_score(df, category_scores, weights) ==
    LET w == normalized_weights(weights)
        used == contributing(df, category_scores)
    IN  [r \in 1..df.rows |->
            RSum([i \in 1..Len(category_scores) |->
                     IF i \in used
                     THEN RMul(df.columns[category_scores[i]][r], w[i])
                     ELSE Zero])]

\* lines 167-206: the returned DataFrame, column by column
calculate_composite_bubble_score(df, category_scores, weights) ==
    LET cs == composite_score(df, category_scores, weights)
        momentum == rolling_mean(diff(cs))
    IN  [ composite_bubble_score |-> cs,
          composite_bubble_score_smooth |-> rolling_mean(cs),
          bubble_risk_level |-> [r \in 1..df.rows |-> pd_cut(cs[r])],
          bubble_score_momentum |-> momentum,
          bubble_score_acceleration |-> rolling_mean(diff(momentum)) ]

\* line 152: the _pct_rank columns of the metrics that df has
rank_metrics(df, metrics) ==
    SelectSeq([i \in 1..Len(metrics) |-> metrics[i] \o "_pct_rank"],
              LAMBDA c : c \in DOMAIN df.columns)

\* lines 140-160; direction_dict is None (<<>>) or a dict, and is only
\* assigned on lines 148-149, never read
calculate_category_risk(df, metrics, direction_dict) ==
    LET rm == rank_metrics(df, metrics)
    IN  IF rm = <<>> THEN [r \in 1..df.rows |-> NaN]
        ELSE [r \in 1..df.rows |->
                 Mean([i \in 1..Len(rm) |-> df.columns[rm[i]][r]])]

\* lines 380-393 for the single metric composite_bubble_score: future_values
\* are the regressor's predictions of lines 357-378
forecast_bubble_metrics(last_value, future_values) ==
    [ composite_bubble_score |-> future_values,
      composite_bubble_score_Change |->
          [i \in 1..Len(future_values) |->
              RMul(RDiv(RSub(future_values[i], last_value), last_value),
                   Int2R(100))],
      bubble_risk_level |->
          [i \in 1..Len(future_values) |-> pd_cut(future_values[i])] ]

-----------------------------------------------------------------------------
(* Bounds of the exploration                                               *)

\* percentile_normalize is called on the halves k/2, |k| <= MaxGrid
MaxGrid == 4
\* the risk-level lookup is applied to the halves k/2, k <= MaxScoreHalves
MaxScoreHalves == 210
\* a run of calculate_china_oct2025_real starts from the hardcoded data with
\* at most MaxPerturbed inputs replaced by an alternative
MaxPerturbed == 2
\* the DataFrames handed to the key_formulas functions have MaxRows rows
MaxRows == 3
\* forecast_bubble_metrics forecasts MaxHorizon months
MaxHorizon == 2

NormGrid == {Dec(k, 2) : k \in (0 - MaxGrid)..MaxGrid}
ScoreGrid == {Dec(k, 2) : k \in (0 - MaxGrid)..MaxScoreHalves}

\* Alternative inputs: below hist_min and above hist_max of the metric's
\* range; for CPI the 2% target as a fraction, 2% and 5% in percent.
InputAlternatives ==
    { <<"PE_Ratio", Int2R(8)>>, <<"PE_Ratio", Int2R(45)>>,
      <<"CAPE", Int2R(9)>>, <<"CAPE", Int2R(36)>>,
      <<"PB_Ratio", Dec(8, 10)>>, <<"PB_Ratio", Dec(58, 10)>>,
      <<"Market_Cap_GDP", Dec(35, 100)>>, <<"Market_Cap_GDP", Dec(150, 100)>>,
      <<"Dividend_Yield", Dec(10, 1000)>>, <<"Dividend_Yield", Dec(45, 1000)>>,
      <<"YTD_return", Dec(0 - 40, 100)>>, <<"YTD_return", Dec(70, 100)>>,
      <<"RSI", Int2R(25)>>, <<"RSI", Int2R(85)>>,
      <<"Volatility", Int2R(12)>>, <<"Volatility", Int2R(50)>>,
      <<"Margin_Balance", Int2R(700)>>, <<"Margin_Balance", Int2R(2600)>>,
      <<"Total_Debt_GDP", Dec(190, 100)>>, <<"Total_Debt_GDP", Dec(360, 100)>>,
      <<"TSF_Growth", Dec(4, 100)>>, <<"TSF_Growth", Dec(16, 100)>>,
      <<"Credit_Impulse", Dec(0 - 6, 100)>>, <<"Credit_Impulse", Dec(6, 100)>>,
      <<"GDP_Growth", Dec(15, 10)>>, <<"GDP_Growth", Dec(90, 10)>>,
      <<"CPI", Dec(2, 100)>>, <<"CPI", Dec(20, 10)>>, <<"CPI", Dec(50, 10)>>,
      <<"PMI", Int2R(44)>>, <<"PMI", Int2R(56)>>,
      <<"Retail_Participation", Dec(55, 100)>>,
      <<"Retail_Participation", Dec(95, 100)>>,
      <<"Foreign_Ownership", Dec(1, 100)>>, <<"Foreign_Ownership", Dec(12, 100)>>,
      <<"Northbound_Flow_YTD", Int2R(0 - 250)>>,
      <<"Northbound_Flow_YTD", Int2R(600)>> }

RECURSIVE Perturbed(_)
Perturbed(k) ==
    IF k = 0 THEN {HardcodedData}
    ELSE LET prev == Perturbed(k - 1)
         IN  prev \cup {[d EXCEPT ![a[1]] = a[2]] : d \in prev, a \in InputAlternatives}

Categories == DOMAIN base_components
ComponentValues == {Int2R(35), Int2R(60)}
WeightSets == {base_weights, equal_weights, no_economy_weights, higher_val_weights}

NoValues == [n \in {} |-> Zero]

\* The ranges of the script with one of them of zero width
ZeroWidthRanges ==
    { [HistoricalRanges EXCEPT ![m] = <<@[1], @[1]>>] :
          m \in DOMAIN HistoricalRanges }

\* DataFrames of n rows with any of the named columns, entries from grid
DataFrames(names, n, grid) ==
    UNION { [rows : {n}, columns : [K -> [1..n -> grid]]] : K \in SUBSET names }

\* category risks: on a bin edge (0.3, 0.5), and above the last edge
RiskGrid == {Dec(3, 10), Dec(5, 10), Dec(9, 10)}
CategoryColumns == <<"valuation_risk", "momentum_risk">>
PositiveWeights == {<<Int2R(1), Int2R(1)>>, <<Int2R(1), Int2R(3)>>}

RankGrid == {Dec(2, 10), Dec(8, 10)}
RankedMetrics == <<"PE_Ratio", "Dividend_Yield">>
RankColumns == {"PE_Ratio_pct_rank", "Dividend_Yield_pct_rank"}
\* None, or a direction (1 or -1) for every metric
DirectionDicts ==
    {<<>>} \cup {<<d>> : d \in [{"PE_Ratio", "Dividend_Yield"} -> {1, 0 - 1}]}

\* forecast scores: the three bin edges and a value on either side
\* signals on either side of the cutoffs 40, 60 and 70
SignalGrid == {Int2R(35), Int2R(40), Int2R(60), Int2R(65), Int2R(70)}
EventNames == DOMAIN events

\* deviations from the baseline, in percent of the baseline, on either side
\* of the 10% of the comment on line 166 and of the 0.15 of line 170
DeviationPercents == {-20, -15, -12, -10, -5, 0, 5, 10, 12, 15, 20}
\* line 29: the baseline score, 36.75 (round(36.75, 2) has one outcome)
BaselineScore ==
    CHOOSE b \in calculate_bubble_score(base_components, base_weights) : TRUE
DeviatingScores ==
    { RMul(BaselineScore, Dec(100 + k, 100)) : k \in DeviationPercents }

CutGrid == {Dec(2, 10), Dec(3, 10), Dec(5, 10), Dec(7, 10), Dec(8, 10)}
LastValues == {Dec(4, 10), Dec(6, 10)}

-----------------------------------------------------------------------------
(* Initial states: one program or one function call per behaviour          *)

IdleCall == args = NoValues /\ ret = <<>>

IdleScript ==
    /\ data = HardcodedData
    /\ ranges = HistoricalRanges
    /\ risks = NoValues
    /\ scores = NoValues
    /\ contribs = NoValues
    /\ composite = <<>>
    /\ risk_level = ""
    /\ globals = NoValues
    /\ printed = <<>>
    /\ results = <<>>
    /\ file = <<>>

InitPercentileNormalize ==
    /\ run = "percentile_normalize"
    /\ pc = "call"
    /\ args \in [value : NormGrid, hist_min : NormGrid, hist_max : NormGrid,
                 invert : BOOLEAN]
    /\ ret = <<>>
    /\ IdleScript

InitRiskLevel ==
    /\ run = "risk_level"
    /\ pc = "call"
    /\ args \in [COMPOSITE_BUBBLE_SCORE : ScoreGrid]
    /\ ret = <<>>
    /\ IdleScript

InitBubbleScore ==
    /\ run = "calculate_bubble_score"
    /\ pc = "call"
    /\ \E K \in SUBSET Categories :
       \E c \in [K -> ComponentValues], w \in WeightSets :
           args = [components |-> c, weights |-> w]
    /\ ret = <<>>
    /\ IdleScript

InitCompositeBubbleScore ==
    /\ run = "calculate_composite_bubble_score"
    /\ pc = "call"
    /\ args \in [ df : DataFrames({CategoryColumns[i] : i \in 1..2},
                                  MaxRows, RiskGrid),
                  category_scores : {CategoryColumns},
                  weights : PositiveWeights ]
    /\ ret = <<>>
    /\ IdleScript

InitCategoryRisk ==
    /\ run = "calculate_category_risk"
    /\ pc = "call"
    /\ args \in [ df : DataFrames(RankColumns, MaxRows, RankGrid),
                  metrics : {RankedMetrics},
                  direction_dict : DirectionDicts ]
    /\ ret = <<>>
    /\ IdleScript

InitForecast ==
    /\ run = "forecast_bubble_metrics"
    /\ pc = "call"
    /\ args \in [ last_value : LastValues,
                  future_values : [1..MaxHorizon -> CutGrid] ]
    /\ ret = <<>>
    /\ IdleScript

InitEvaluateMethod ==
    /\ run = "evaluate_method"
    /\ pc = "call"
    /\ \E f \in [EventNames -> SignalGrid] :
           args = [method |-> MethodDict("Method", f["2015_peak"],
                                         f["2018_correction"], f["2021_peak"],
                                         f["2022_bottom"], f["2025_current"],
                                         "Low", "")]
    /\ ret = <<>>
    /\ IdleScript

\* lines 166-173 of generate_robustness_checks on a list of scores: the
\* baseline and two specification scores
InitCheckVariation ==
    /\ run = "check_variation"
    /\ pc = "call"
    /\ \E s1 \in DeviatingScores, s2 \in DeviatingScores :
           args = [scores |-> <<BaselineScore, s1, s2>>,
                   baseline_score |-> BaselineScore]
    /\ ret = <<>>
    /\ IdleScript

InitBenchmark ==
    /\ run = "generate_benchmark_comparison"
    /\ pc = "performance"
    /\ IdleCall
    /\ IdleScript

InitValidation ==
    /\ run = "generate_statistical_validation"
    /\ pc = "results"
    /\ IdleCall
    /\ IdleScript

\* line 18 has created the empty figure
InitComparison ==
    /\ run = "china_vs_usa_final_comparison"
    /\ pc = "breakdown"
    /\ IdleCall
    /\ data = HardcodedData
    /\ ranges = HistoricalRanges
    /\ risks = NoValues
    /\ scores = NoValues
    /\ contribs = NoValues
    /\ composite = <<>>
    /\ risk_level = ""
    /\ globals = NoValues
    /\ printed = <<>>
    /\ results = <<NoValues>>
    /\ file = <<>>

InitChina ==
    /\ run = "calculate_china_oct2025_real"
    /\ pc = "valuation"
    /\ IdleCall
    /\ \/ data \in Perturbed(MaxPerturbed) /\ ranges = HistoricalRanges
       \/ data = HardcodedData /\ ranges \in ZeroWidthRanges
    /\ risks = NoValues
    /\ scores = NoValues
    /\ contribs = NoValues
    /\ composite = <<>>
    /\ risk_level = ""
    /\ globals = NoValues
    /\ printed = <<>>
    /\ results = <<>>
    /\ file = <<>>

InitRobustness ==
    /\ run = "generate_robustness_checks"
    /\ pc = "baseline"
    /\ IdleCall
    /\ IdleScript

Init ==
    \/ InitPercentileNormalize
    \/ InitRiskLevel
    \/ InitBubbleScore
    \/ InitCompositeBubbleScore
    \/ InitCategoryRisk
    \/ InitForecast
    \/ InitEvaluateMethod
    \/ InitCheckVariation
    \/ InitChina
    \/ InitRobustness
    \/ InitBenchmark
    \/ InitValidation
    \/ InitComparison

-----------------------------------------------------------------------------
(* Function calls                                                          *)

scriptVars == <<data, ranges, risks, scores, contribs, composite, risk_level,
                globals, printed, results, file>>

\* percentile_normalize(value, hist_min, hist_max, invert)
PercentileNormalize ==
    /\ run = "percentile_normalize"
    /\ pc = "call"
    /\ IF percentile_normalize_raises(args.value, args.hist_min,
                                      args.hist_max, args.invert)
       THEN /\ pc' = "ZeroDivisionError"
            /\ ret' = ret
       ELSE /\ pc' = "returned"
            /\ ret' = <<percentile_normalize(args.value, args.hist_min,
                                             args.hist_max, args.invert)>>
    /\ UNCHANGED <<run, args, scriptVars>>

\* the if / elif chain of lines 236-247 on a given composite score
ClassifyRisk ==
    /\ run = "risk_level"
    /\ pc = "call"
    /\ pc' = "returned"
    /\ ret' = <<RiskLevelOf(args.COMPOSITE_BUBBLE_SCORE)>>
    /\ UNCHANGED <<run, args, scriptVars>>

\* calculate_bubble_score(components, weights)
CalculateBubbleScore ==
    /\ run = "calculate_bubble_score"
    /\ pc = "call"
    /\ IF calculate_bubble_score_raises(args.components, args.weights)
       THEN /\ pc' = "KeyError"
            /\ ret' = ret
       ELSE /\ pc' = "returned"
            /\ \E s \in calculate_bubble_score(args.components, args.weights) :
                   ret' = <<s>>
    /\ UNCHANGED <<run, args, scriptVars>>

\* key_formulas.calculate_composite_bubble_score(df, category_scores, weights)
CalculateCompositeBubbleScore ==
    /\ run = "calculate_composite_bubble_score"
    /\ pc = "call"
    /\ pc' = "returned"
    /\ ret' = <<calculate_composite_bubble_score(args.df, args.category_scores,
                                                 args.weights)>>
    /\ UNCHANGED <<run, args, scriptVars>>

\* key_formulas.calculate_category_risk(df, metrics, direction_dict)
CalculateCategoryRisk ==
    /\ run = "calculate_category_risk"
    /\ pc = "call"
    /\ pc' = "returned"
    /\ ret' = <<calculate_category_risk(args.df, args.metrics,
                                        args.direction_dict)>>
    /\ UNCHANGED <<run, args, scriptVars>>

\* key_formulas.forecast_bubble_metrics(df, forecast_horizon,
\* ['composite_bubble_score']), the predictions being given
ForecastBubbleMetrics ==
    /\ run = "forecast_bubble_metrics"
    /\ pc = "call"
    /\ pc' = "returned"
    /\ ret' = <<forecast_bubble_metrics(args.last_value, args.future_values)>>
    /\ UNCHANGED <<run, args, scriptVars>>

\* generate_benchmark_comparison.evaluate_method(method)
EvaluateMethod ==
    /\ run = "evaluate_method"
    /\ pc = "call"
    /\ pc' = "returned"
    /\ ret' = <<evaluate_method(args.method)>>
    /\ UNCHANGED <<run, args, scriptVars>>

\* generate_robustness_checks, lines 166-173: max_deviation and the verdict
CheckVariation ==
    /\ run = "check_variation"
    /\ pc = "call"
    /\ pc' = "returned"
    /\ LET md == MaxDeviation(args.scores, args.baseline_score)
       IN  ret' = <<[ max_deviation |-> md,
                      text |-> RobustnessVerdict(md, args.baseline_score) ]>>
    /\ UNCHANGED <<run, args, scriptVars>>

-----------------------------------------------------------------------------
(* calculate_china_oct2025_real.py, top to bottom                          *)

InChina(at) == run = "calculate_china_oct2025_real" /\ pc = at

\* One category: the metric risks are assigned in the order of names, then
\* the category score.  A percentile_normalize call that raises ends the
\* script there: the script has no try / except.
CategoryRisk(names, score, at, next) ==
    /\ InChina(at)
    /\ LET bad == {i \in 1..Len(names) : MetricRaises(names[i], data, ranges)}
           upto == IF bad = {} THEN Len(names)
                   ELSE (CHOOSE i \in bad : \A j \in bad : i <= j) - 1
           r == risks @@ [m \in {names[i] : i \in 1..upto} |->
                             MetricRisk(m, data, ranges)]
       IN  /\ risks' = r
           /\ IF bad = {}
              THEN /\ scores' = scores @@ (score :> CategoryScore(r, names))
                   /\ pc' = next
              ELSE /\ scores' = scores
                   /\ pc' = "ZeroDivisionError"
    /\ UNCHANGED <<run, args, ret, data, ranges, contribs, composite,
                   risk_level, globals, printed, results, file>>

\* lines 94-118
ValuationRisk ==
    CategoryRisk(ValuationMetrics, "VALUATION_SCORE", "valuation", "momentum")
\* lines 120-140
MomentumRisk ==
    CategoryRisk(MomentumMetrics, "MOMENTUM_SCORE", "momentum", "credit")
\* lines 142-158
CreditRisk == CategoryRisk(CreditMetrics, "CREDIT_SCORE", "credit", "economy")
\* lines 160-180
EconomicRisk ==
    CategoryRisk(EconomyMetrics, "ECONOMY_SCORE", "economy", "sentiment")
\* lines 182-198
SentimentRisk ==
    CategoryRisk(SentimentMetrics, "SENTIMENT_SCORE", "sentiment", "composite")

\* lines 208-233
CompositeScore ==
    /\ InChina("composite")
    /\ contribs' = Contributions(scores)
    /\ composite' = <<COMPOSITE_BUBBLE_SCORE(Contributions(scores))>>
    /\ pc' = "risk_level"
    /\ UNCHANGED <<run, args, ret, data, ranges, risks, scores, risk_level,
                   globals, printed, results, file>>

\* lines 235-249
RiskLevel ==
    /\ InChina("risk_level")
    /\ risk_level' = RiskLevelOf(composite[1])
    /\ pc' = "comparison"
    /\ UNCHANGED <<run, args, ret, data, ranges, risks, scores, contribs, composite,
                   globals, printed, results, file>>

\* lines 251-269: prints only
CompareWithUSA ==
    /\ InChina("comparison")
    /\ printed' = Append(printed,
                          [ text |-> "Advantage: China (% lower risk)",
                            value |-> ChinaAdvantage(data, composite[1]) ])
    /\ pc' = "results"
    /\ UNCHANGED <<run, args, ret, data, ranges, risks, scores, contribs, composite,
                   risk_level, globals, results, file>>

\* lines 275-312
BuildResults ==
    /\ InChina("results")
    /\ \E rnd \in ChinaRoundings(data, scores, composite[1]) :
           results' = <<ChinaResults(data, risk_level, rnd)>>
    /\ pc' = "save"
    /\ UNCHANGED <<run, args, ret, data, ranges, risks, scores, contribs, composite,
                   risk_level, globals, printed, file>>

\* lines 314-321
SaveResults ==
    /\ InChina("save")
    /\ file' = Append(file, results[1])
    /\ pc' = "done"
    /\ UNCHANGED <<run, args, ret, data, ranges, risks, scores, contribs, composite,
                   risk_level, globals, printed, results>>

ChinaNext ==
    \/ ValuationRisk
    \/ MomentumRisk
    \/ CreditRisk
    \/ EconomicRisk
    \/ SentimentRisk
    \/ CompositeScore
    \/ RiskLevel
    \/ CompareWithUSA
    \/ BuildResults
    \/ SaveResults

-----------------------------------------------------------------------------
(* generate_robustness_checks.py, top to bottom                            *)

InRobustness(at) == run = "generate_robustness_checks" /\ pc = at

\* name = calculate_bubble_score(components, weights), then the next line
Specification(name, at, next) ==
    /\ InRobustness(at)
    /\ LET call == SpecificationCalls[name]
       IN  \E s \in calculate_bubble_score(call.components, call.weights) :
               globals' = globals @@ (name :> s)
    /\ pc' = next
    /\ UNCHANGED <<run, args, ret, data, ranges, risks, scores, contribs, composite,
                   risk_level, printed, results, file>>

\* lines 36-38
Baseline == Specification("baseline_score", "baseline", "equal_weights")
\* lines 40-43
EqualWeights == Specification("equal_score", "equal_weights", "without_economy")
\* lines 45-55
WithoutEconomy == Specification("no_economy_score", "without_economy", "quarterly")
\* lines 57-67
QuarterlyData == Specification("quarterly_score", "quarterly", "rolling")
\* lines 69-79
Rolling12Month == Specification("rolling_score", "rolling", "higher_val")
\* lines 81-90
HigherValWeight == Specification("higher_val_score", "higher_val", "results")

\* lines 92-152
RobustnessBuildResults ==
    /\ InRobustness("results")
    /\ results' = <<RobustnessResults(globals)>>
    /\ pc' = "summary"
    /\ UNCHANGED <<run, args, ret, data, ranges, risks, scores, contribs, composite,
                   risk_level, globals, printed, file>>

\* lines 154-164: results["summary"] is updated in place
SummaryStats ==
    /\ InRobustness("summary")
    /\ LET sc == ScoresOf(results[1])
       IN  /\ globals' = globals @@ ("scores" :> sc)
           /\ \E rnd \in SummaryRoundings(sc) :
                  results' = <<[results[1] EXCEPT
                                   !.summary.min_score = rnd.min_score,
                                   !.summary.max_score = rnd.max_score,
                                   !.summary.range = rnd.range,
                                   !.summary.avg_score = rnd.avg_score]>>
    /\ pc' = "deviation"
    /\ UNCHANGED <<run, args, ret, data, ranges, risks, scores, contribs, composite,
                   risk_level, printed, file>>

\* lines 166-173
DeviationCheck ==
    /\ InRobustness("deviation")
    /\ LET md == MaxDeviation(globals["scores"], globals["baseline_score"])
       IN  /\ globals' = globals @@ ("max_deviation" :> md)
           /\ printed' = Append(printed,
                  [ text |-> RobustnessVerdict(md, globals["baseline_score"]),
                    value |-> md ])
    /\ pc' = "save"
    /\ UNCHANGED <<run, args, ret, data, ranges, risks, scores, contribs, composite,
                   risk_level, results, file>>

\* lines 175-180
RobustnessSave ==
    /\ InRobustness("save")
    /\ file' = Append(file, results[1])
    /\ pc' = "latex"
    /\ UNCHANGED <<run, args, ret, data, ranges, risks, scores, contribs, composite,
                   risk_level, globals, printed, results>>

\* lines 182-211: the LaTeX table is built from results and printed
LatexTable ==
    /\ InRobustness("latex")
    /\ pc' = "done"
    /\ UNCHANGED <<run, args, ret, data, ranges, risks, scores, contribs, composite,
                   risk_level, globals, printed, results, file>>

RobustnessNext ==
    \/ Baseline
    \/ EqualWeights
    \/ WithoutEconomy
    \/ QuarterlyData
    \/ Rolling12Month
    \/ HigherValWeight
    \/ RobustnessBuildResults
    \/ SummaryStats
    \/ DeviationCheck
    \/ RobustnessSave
    \/ LatexTable

-----------------------------------------------------------------------------
(* generate_benchmark_comparison.py, top to bottom                         *)

InBenchmark(at) == run = "generate_benchmark_comparison" /\ pc = at

\* lines 149-154: one printed line per method
BenchmarkPerformanceTable ==
    /\ InBenchmark("performance")
    /\ printed' = printed \o
           [i \in 1..Len(methods) |->
               [ text |-> methods[i]["name"],
                 score |-> evaluate_method(methods[i])[1],
                 max_score |-> evaluate_method(methods[i])[2],
                 value |-> Accuracy(methods[i]) ]]
    /\ pc' = "results"
    /\ UNCHANGED <<run, args, ret, data, ranges, risks, scores, contribs,
                   composite, risk_level, globals, results, file>>

\* lines 161-173
BenchmarkBuildResults ==
    /\ InBenchmark("results")
    /\ \E rnd \in AccuracyRoundings(methods) :
           results' = <<BenchmarkResults(methods, rnd)>>
    /\ pc' = "save"
    /\ UNCHANGED <<run, args, ret, data, ranges, risks, scores, contribs,
                   composite, risk_level, globals, printed, file>>

\* lines 175-180
BenchmarkSave ==
    /\ InBenchmark("save")
    /\ file' = Append(file, results[1])
    /\ pc' = "latex"
    /\ UNCHANGED <<run, args, ret, data, ranges, risks, scores, contribs,
                   composite, risk_level, globals, printed, results>>

\* lines 182-245: the LaTeX table is built from methods and results and
\* printed, then the key findings
BenchmarkLatex ==
    /\ InBenchmark("latex")
    /\ pc' = "done"
    /\ UNCHANGED <<run, args, ret, data, ranges, risks, scores, contribs,
                   composite, risk_level, globals, printed, results, file>>

BenchmarkNext ==
    \/ BenchmarkPerformanceTable
    \/ BenchmarkBuildResults
    \/ BenchmarkSave
    \/ BenchmarkLatex

-----------------------------------------------------------------------------
(* generate_statistical_validation.py, top to bottom                       *)

InValidation(at) == run = "generate_statistical_validation" /\ pc = at

\* lines 14-164: the three tables are literals; results combines them
ValidationBuildResults ==
    /\ InValidation("results")
    /\ results' = <<ValidationResults>>
    /\ pc' = "save"
    /\ UNCHANGED <<run, args, ret, data, ranges, risks, scores, contribs,
                   composite, risk_level, globals, printed, file>>

\* lines 166-171
ValidationSave ==
    /\ InValidation("save")
    /\ file' = Append(file, results[1])
    /\ pc' = "latex"
    /\ UNCHANGED <<run, args, ret, data, ranges, risks, scores, contribs,
                   composite, risk_level, globals, printed, results>>

\* lines 173-237: the LaTeX tables are built from the three tables and printed
ValidationLatex ==
    /\ InValidation("latex")
    /\ pc' = "done"
    /\ UNCHANGED <<run, args, ret, data, ranges, risks, scores, contribs,
                   composite, risk_level, globals, printed, results, file>>

ValidationNext ==
    \/ ValidationBuildResults
    \/ ValidationSave
    \/ ValidationLatex

-----------------------------------------------------------------------------
(* china_vs_usa_final_comparison.py, top to bottom; results holds fig      *)

InComparison(at) == run = "china_vs_usa_final_comparison" /\ pc = at

\* Mutant: the figure is also saved after every drawing step
Draw_and_save(panels, at, next) ==
    /\ InComparison(at)
    /\ results' = <<results[1] @@ panels>>
    /\ file' = Append(file, results[1] @@ panels)
    /\ pc' = next
    /\ UNCHANGED <<run, args, ret, data, ranges, risks, scores, contribs,
                   composite, risk_level, globals, printed>>

\* one or more panels are drawn on the figure
Draw(panels, at, next) ==
    /\ InComparison(at)
    /\ results' = <<results[1] @@ panels>>
    /\ pc' = next
    /\ UNCHANGED <<run, args, ret, data, ranges, risks, scores, contribs,
                   composite, risk_level, globals, printed, file>>

\* lines 23-48
DrawBreakdown == Draw("breakdown" :> BreakdownBars, "breakdown", "valuation")
\* lines 50-75
DrawValuation == Draw("valuation" :> ValuationBars, "valuation", "panels")
\* lines 77-274
DrawOtherPanels == Draw(OtherPanels, "panels", "title")
\* lines 276-286
DrawTitle == Draw("suptitle" :> FigureTitle, "title", "savefig")

\* lines 288-293
SaveFigure ==
    /\ InComparison("savefig")
    /\ file' = Append(file, results[1])
    /\ pc' = "done"
    /\ UNCHANGED <<run, args, ret, data, ranges, risks, scores, contribs,
                   composite, risk_level, globals, printed, results>>

ComparisonNext ==
    \/ DrawBreakdown
    \/ DrawValuation
    \/ DrawOtherPanels
    \/ DrawTitle
    \/ SaveFigure

-----------------------------------------------------------------------------

Next ==
    \/ PercentileNormalize
    \/ ClassifyRisk
    \/ CalculateBubbleScore
    \/ CalculateCompositeBubbleScore
    \/ CalculateCategoryRisk
    \/ ForecastBubbleMetrics
    \/ EvaluateMethod
    \/ CheckVariation
    \/ ChinaNext
    \/ RobustnessNext
    \/ BenchmarkNext
    \/ ValidationNext
    \/ ComparisonNext

Spec == Init /\ [][Next]_vars

-----------------------------------------------------------------------------
(* Properties                                                              *)

RGe(a, b) == RLe(b, a)
InRange(x, lo, hi) == RLe(lo, x) /\ RLe(x, hi)

Normalized == run = "percentile_normalize" /\ pc = "returned"

\* C1: for every value and every range hist_min < hist_max, the value
\* returned by percentile_normalize lies in [0, 1], also when value is below
\* hist_min or above hist_max, with and without invert.
C1_NormalizedInUnitInterval ==
    (Normalized /\ RLt(args.hist_min, args.hist_max))
        => InRange(ret[1], Zero, One)

\* a call with value above hist_max and invert set has returned
C1_Witness ==
    /\ Normalized
    /\ RLt(args.hist_min, args.hist_max)
    /\ RLt(args.hist_max, args.value)
    /\ args.invert

\* C2: with invert False and hist_min < hist_max, percentile_normalize
\* returns 0 for value = hist_min and 1 for value = hist_max.
C2_EndpointsMapToZeroAndOne ==
    (Normalized /\ RLt(args.hist_min, args.hist_max) /\ ~args.invert)
        => /\ (args.value = args.hist_min => ret[1] = Zero)
           /\ (args.value = args.hist_max => ret[1] = One)

\* a call at the upper end of a range that does not start at 0 has returned
C2_Witness ==
    /\ Normalized
    /\ RLt(args.hist_min, args.hist_max)
    /\ ~args.invert
    /\ args.value = args.hist_max
    /\ args.hist_min # Zero

\* C3: with hist_min < hist_max, the value returned with invert True is 1
\* minus the value the same call returns with invert False.
C3_InvertIsOneMinus ==
    (Normalized /\ RLt(args.hist_min, args.hist_max) /\ args.invert)
        => ret[1] = RSub(One, percentile_normalize(args.value, args.hist_min,
                                                   args.hist_max, FALSE))

\* an inverted call with value strictly inside the range, off its middle
C3_Witness ==
    /\ Normalized
    /\ args.invert
    /\ RLt(args.hist_min, args.value)
    /\ RLt(args.value, args.hist_max)
    /\ ret[1] # Dec(1, 2)


InChinaRun == run = "calculate_china_oct2025_real"
InRobustnessRun == run = "generate_robustness_checks"
BubbleScored == run = "calculate_bubble_score" /\ pc = "returned"

\* The weight the composite layer gives each category score (lines 209-220)
ChinaWeights ==
    [ VALUATION_SCORE |-> W_VALUATION, MOMENTUM_SCORE |-> W_MOMENTUM,
      CREDIT_SCORE |-> W_CREDIT, ECONOMY_SCORE |-> W_ECONOMY,
      SENTIMENT_SCORE |-> W_SENTIMENT ]

\* sum over the keys S of score[k] * weight[k]
WeightedSum(score, weight, S) ==
    RSumOver([k \in S |-> RMul(score[k], weight[k])], S)

\* r is x rounded to 2 decimals: a multiple of 1/100 at most 1/200 from x
IsRoundedTo2(r, x) ==
    /\ RMul(r, Int2R(100))[2] = 1
    /\ RLe(RAbs(RSub(r, x)), Dec(1, 200))

\* C4: the composite score is the sum over the categories of category score
\* times weight: COMPOSITE_BUBBLE_SCORE is the sum of the five CONTRIB_*
\* products, and calculate_bubble_score(components, weights) returns the sum
\* over exactly the keys of components, rounded to 2 decimals.
C4_CompositeIsWeightedSum ==
    /\ (InChinaRun /\ composite # <<>>) =>
          /\ composite[1] = WeightedSum(scores, ChinaWeights, DOMAIN ChinaWeights)
          /\ composite[1] = RSumOver(contribs, DOMAIN contribs)
          /\ Cardinality(DOMAIN contribs) = 5
    /\ BubbleScored =>
          IsRoundedTo2(ret[1], WeightedSum(args.components, args.weights,
                                           DOMAIN args.components))
    /\ InRobustnessRun =>
          \A n \in DOMAIN globals \cap DOMAIN SpecificationCalls :
              IsRoundedTo2(globals[n],
                           WeightedSum(SpecificationCalls[n].components,
                                       SpecificationCalls[n].weights,
                                       DOMAIN SpecificationCalls[n].components))

\* calculate_bubble_score has returned, for components with fewer keys than
\* weights, a value that differs from the exact sum (the rounding acted)
C4_Witness ==
    /\ BubbleScored
    /\ DOMAIN args.components # {}
    /\ DOMAIN args.components # DOMAIN args.weights
    /\ ret[1] # WeightedSum(args.components, args.weights,
                            DOMAIN args.components)

WeightsSumToOne(w) ==
    /\ \A k \in DOMAIN w : InRange(w[k], Zero, One)
    /\ RSumOver(w, DOMAIN w) = One

\* C5: every weight set used to compute a composite score (the W_* constants,
\* base_weights, equal_weights, no_economy_weights, higher_val_weights) has
\* every weight in [0, 1] and sums to exactly 1.
C5_WeightsSumToOne ==
    /\ (InChinaRun /\ composite # <<>>) => WeightsSumToOne(ChinaWeights)
    /\ InRobustnessRun =>
          \A n \in DOMAIN globals \cap DOMAIN SpecificationCalls :
              WeightsSumToOne(SpecificationCalls[n].weights)

\* The (score, label) pair of a completed threshold lookup
Labelled ==
    IF run = "risk_level" /\ pc = "returned"
    THEN {<<args.COMPOSITE_BUBBLE_SCORE, ret[1]>>}
    ELSE IF InChinaRun /\ risk_level # ""
    THEN {<<composite[1], risk_level>>}
    ELSE {}

Between(s, lo, hi) == RLe(Int2R(lo), s) /\ RLt(s, Int2R(hi))

\* C6: the label of a score s is Minimal Risk if s < 20, Low-Moderate Risk if
\* 20 <= s < 35, Moderate Risk if 35 <= s < 50, Elevated Risk if 50 <= s < 65,
\* High Risk if 65 <= s < 80 and Extreme Risk if s >= 80, so a score equal to
\* a threshold gets the higher bucket.
C6_RiskLevelThresholds ==
    \A p \in Labelled :
        /\ RLt(p[1], Int2R(20)) => p[2] = "Minimal Risk"
        /\ Between(p[1], 20, 35) => p[2] = "Low-Moderate Risk"
        /\ Between(p[1], 35, 50) => p[2] = "Moderate Risk"
        /\ Between(p[1], 50, 65) => p[2] = "Elevated Risk"
        /\ Between(p[1], 65, 80) => p[2] = "High Risk"
        /\ RGe(p[1], Int2R(80)) => p[2] = "Extreme Risk"

\* the lookup has labelled a score that is exactly the threshold 65
C6_Witness ==
    /\ run = "risk_level"
    /\ pc = "returned"
    /\ args.COMPOSITE_BUBBLE_SCORE = Int2R(65)
    /\ ret[1] = "High Risk"

\* C7: category scores 35, 60, 30, 20, 35 with weights 0.25, 0.20, 0.20,
\* 0.15, 0.20 give the composite 36.75 exactly (baseline_score), which the
\* threshold lookup labels Moderate Risk.
C7_BaselineExample ==
    (InRobustnessRun /\ "baseline_score" \in DOMAIN globals) =>
        /\ SpecificationCalls["baseline_score"].components =
              [ Valuation |-> Int2R(35), Momentum |-> Int2R(60),
                Credit |-> Int2R(30), Economy |-> Int2R(20),
                Sentiment |-> Int2R(35) ]
        /\ SpecificationCalls["baseline_score"].weights =
              [ Valuation |-> Dec(25, 100), Momentum |-> Dec(20, 100),
                Credit |-> Dec(20, 100), Economy |-> Dec(15, 100),
                Sentiment |-> Dec(20, 100) ]
        /\ globals["baseline_score"] = Dec(3675, 100)
        /\ RiskLevelOf(globals["baseline_score"]) = "Moderate Risk"

\* the robustness script has computed its baseline score
C7_Witness ==
    /\ InRobustnessRun
    /\ pc = "equal_weights"
    /\ "baseline_score" \in DOMAIN globals

\* C8: every category score computed by calculate_china_oct2025_real lies in
\* [0, 100] for every value of the raw inputs, CPI included.
C8_CategoryScoresInRange ==
    InChinaRun =>
        \A c \in DOMAIN scores : InRange(scores[c], Zero, Int2R(100))


\* The [hist_min, hist_max] ranges written in lines 98-194, and the range the
\* comment of line 167 gives for inflation (-2 to +5%), as a percentage and
\* as a fraction
FixedRanges ==
    { <<Int2R(10), Int2R(40)>>, <<Int2R(10), Int2R(35)>>,
      <<Dec(10, 10), Dec(50, 10)>>, <<Dec(40, 100), Dec(140, 100)>>,
      <<Dec(15, 1000), Dec(40, 1000)>>, <<Dec(0 - 30, 100), Dec(60, 100)>>,
      <<Int2R(30), Int2R(80)>>, <<Int2R(15), Int2R(45)>>,
      <<Int2R(800), Int2R(2500)>>, <<Dec(200, 100), Dec(350, 100)>>,
      <<Dec(5, 100), Dec(15, 100)>>, <<Dec(0 - 5, 100), Dec(5, 100)>>,
      <<Dec(20, 10), Dec(80, 10)>>, <<Int2R(45), Int2R(55)>>,
      <<Dec(40, 10), Dec(80, 10)>>, <<Dec(60, 100), Dec(90, 100)>>,
      <<Int2R(0 - 200), Int2R(500)>>, <<Dec(2, 100), Dec(10, 100)>>,
      <<Int2R(0 - 2), Int2R(5)>>, <<Dec(0 - 2, 100), Dec(5, 100)>> }

\* C9: every metric risk that enters a category mean is the output of
\* percentile_normalize applied to the metric's raw value and a fixed
\* [min, max] range, optionally inverted.
C9_RisksArePercentileNormalized ==
    InChinaRun =>
        \A m \in DOMAIN risks :
            \E rg \in FixedRanges, inv \in BOOLEAN :
                risks[m] = percentile_normalize(MetricInput(data)[m],
                                                rg[1], rg[2], inv)

\* The metrics of each category and their number as the claim gives it
CategoryMetrics ==
    [ VALUATION_SCORE |-> [names |-> ValuationMetrics, n |-> 5],
      MOMENTUM_SCORE |-> [names |-> MomentumMetrics, n |-> 4],
      CREDIT_SCORE |-> [names |-> CreditMetrics, n |-> 3],
      ECONOMY_SCORE |-> [names |-> EconomyMetrics, n |-> 4],
      SENTIMENT_SCORE |-> [names |-> SentimentMetrics, n |-> 3] ]

\* C10: each category score is the unweighted mean of the category's metric
\* risks times 100: every metric contributes with the coefficient 100/n,
\* n = 5, 4, 3, 4, 3 metrics for the five categories.
C10_CategoryScoreIsUnweightedMean ==
    InChinaRun =>
        \A c \in DOMAIN scores :
            LET m == CategoryMetrics[c]
            IN  /\ Len(m.names) = m.n
                /\ scores[c] =
                      RSum([i \in 1..m.n |->
                               RMul(Dec(100, m.n), risks[m.names[i]])])

\* all five category scores of a run on perturbed data are computed
C10_Witness ==
    /\ InChina("composite")
    /\ DOMAIN scores = DOMAIN CategoryMetrics
    /\ data # HardcodedData

\* every value of f lies in [0, 100]
AllInRange(f) == \A k \in DOMAIN f : InRange(f[k], Zero, Int2R(100))

\* C11: whenever all category scores are in [0, 100] and the weights are
\* non-negative and sum to 1, the composite score is in [0, 100]: the
\* composite of calculate_china_oct2025_real, the value returned by
\* calculate_bubble_score, and every specification score of
\* generate_robustness_checks.
C11_CompositeInRange ==
    /\ (InChinaRun /\ composite # <<>> /\ AllInRange(scores)
            /\ WeightsSumToOne(ChinaWeights))
          => InRange(composite[1], Zero, Int2R(100))
    /\ (BubbleScored /\ AllInRange(args.components)
            /\ WeightsSumToOne(args.weights))
          => InRange(ret[1], Zero, Int2R(100))
    /\ InRobustnessRun =>
          \A n \in DOMAIN globals \cap DOMAIN SpecificationCalls :
              (AllInRange(SpecificationCalls[n].components)
                   /\ WeightsSumToOne(SpecificationCalls[n].weights))
                 => InRange(globals[n], Zero, Int2R(100))

\* the composite of a run on perturbed data whose five category scores are
\* all in [0, 100] has been computed
C11_Witness ==
    /\ InChina("risk_level")
    /\ data # HardcodedData
    /\ AllInRange(scores)
    /\ RLt(Zero, composite[1])

\* The percentile_normalize calls of the script whose range has zero width
ZeroWidthCalls == {m \in DOMAIN ranges : ranges[m][1] = ranges[m][2]}

\* The category score each metric risk enters
CategoryOf(m) ==
    CHOOSE c \in DOMAIN CategoryMetrics :
        \E i \in 1..Len(CategoryMetrics[c].names) :
            CategoryMetrics[c].names[i] = m

\* C13: percentile_normalize called with hist_min = hist_max does not return
\* a value, it raises ZeroDivisionError; a run of
\* calculate_china_oct2025_real in which a call has a zero-width range stops
\* at that call (the risk is not assigned, nor its category score, nor the
\* composite) and the results file is never written.
C13_ZeroWidthRangeAborts ==
    /\ (run = "percentile_normalize" /\ args.hist_min = args.hist_max
            /\ pc # "call")
          => (pc = "ZeroDivisionError" /\ ret = <<>>)
    /\ InChinaRun =>
          \A m \in ZeroWidthCalls :
              /\ m \notin DOMAIN risks
              /\ CategoryOf(m) \notin DOMAIN scores
              /\ composite = <<>>
              /\ results = <<>>
              /\ file = <<>>
              /\ pc \in {"valuation", "momentum", "credit", "economy",
                          "sentiment", "ZeroDivisionError"}

\* a run has stopped in the economy block at the zero-width range of
\* PMI_risk, after GDP_risk and Inflation_risk were assigned
C13_Witness ==
    /\ InChinaRun
    /\ pc = "ZeroDivisionError"
    /\ ZeroWidthCalls = {"PMI_risk"}
    /\ {"GDP_risk", "Inflation_risk"} \subseteq DOMAIN risks
    /\ file = <<>>

\* The keys of the JSON object of calculate_china_oct2025_real
ChinaSchema ==
    [ indices |-> {"SSE_Composite", "CSI_300", "YTD_Return"},
      valuation |-> {"PE_Ratio", "CAPE", "PB_Ratio", "Dividend_Yield",
                     "Market_Cap_GDP"},
      economic |-> {"GDP_Growth", "CPI", "PMI", "Debt_GDP"},
      bubble_analysis |-> {"valuation_score", "momentum_score", "credit_score",
                           "economy_score", "sentiment_score",
                           "composite_bubble_score", "risk_level"},
      comparison_usa |-> {"USA_Bubble_Score", "China_Advantage", "PE_Discount",
                          "CAPE_Discount", "GDP_Premium"} ]

HasChinaSchema(obj) ==
    /\ DOMAIN obj = DOMAIN ChinaSchema \cup {"date", "market"}
    /\ \A k \in DOMAIN ChinaSchema : DOMAIN obj[k] = ChinaSchema[k]

\* C15: the JSON object written by calculate_china_oct2025_real always has
\* the same keys: date, market and the nested objects indices, valuation,
\* economic, bubble_analysis (the five category scores,
\* composite_bubble_score, risk_level) and comparison_usa, whatever the
\* computed values are.
C15_FixedSchema ==
    InChinaRun =>
        /\ results # <<>> => HasChinaSchema(results[1])
        /\ \A i \in 1..Len(file) : HasChinaSchema(file[i])

\* the file of a run on perturbed data whose composite is above the USA
\* score (a negative China_Advantage) has been written
C15_Witness ==
    /\ InChina("done")
    /\ data # HardcodedData
    /\ Len(file) = 1
    /\ file[1].comparison_usa.China_Advantage[1] < 0

\* The sum of the weights line 182 applies, after the division of line 176
AppliedWeightSum(df, category_scores, weights) ==
    RSum([i \in 1..Len(category_scores) |->
             IF i \in contributing(df, category_scores)
             THEN normalized_weights(weights)[i] ELSE Zero])

\* The weighted average, in row r, of the category risks df has
WeightedAverage(df, category_scores, weights, r) ==
    LET used == contributing(df, category_scores)
        pick(f) == [i \in 1..Len(category_scores) |->
                       IF i \in used THEN f[i] ELSE Zero]
    IN  RDiv(RSum(pick([i \in 1..Len(category_scores) |->
                           IF i \in used
                           THEN RMul(df.columns[category_scores[i]][r],
                                     weights[i])
                           ELSE Zero])),
             RSum(pick(weights)))

\* C16: calculate_composite_bubble_score returns a weighted average of the
\* category risks: for every input in which at least one category
\* contributes, also when some names of category_scores are not columns of
\* df, the weights applied to the contributing categories sum to 1.
C16_AppliedWeightsSumToOne ==
    (run = "calculate_composite_bubble_score" /\ pc = "returned"
        /\ contributing(args.df, args.category_scores) # {})
      => /\ AppliedWeightSum(args.df, args.category_scores, args.weights) = One
         /\ \A r \in 1..args.df.rows :
               ret[1].composite_bubble_score[r] =
                   WeightedAverage(args.df, args.category_scores,
                                   args.weights, r)

\* The direction of metric m: 1 when direction_dict is None
DirectionOf(direction_dict, m) ==
    IF direction_dict = <<>> THEN 1 ELSE direction_dict[1][m]

\* The category risk of row r with the ranks of the direction -1 metrics
\* inverted before averaging
DirectedCategoryRisk(df, metrics, direction_dict, r) ==
    LET present == SelectSeq(metrics,
                       LAMBDA m : (m \o "_pct_rank") \in DOMAIN df.columns)
    IN  Mean([i \in 1..Len(present) |->
                 LET rank == df.columns[present[i] \o "_pct_rank"][r]
                 IN  IF DirectionOf(direction_dict, present[i]) = 0 - 1
                     THEN RSub(One, rank) ELSE rank])

\* C17: calculate_category_risk honours direction_dict: the percentile rank
\* of a metric with direction -1 is inverted (1 - rank) before the ranks
\* of the category are averaged, so the same metric contributes differently
\* with direction -1 and with direction 1.
C17_DirectionHonoured ==
    (run = "calculate_category_risk" /\ pc = "returned"
        /\ rank_metrics(args.df, args.metrics) # <<>>)
      => \A r \in 1..args.df.rows :
             ret[1][r] = DirectedCategoryRisk(args.df, args.metrics,
                                              args.direction_dict, r)

\* The number of events the docstring of evaluate_method credits: 2015 and
\* 2021 above 60, 2018 in 30-60, 2022 below 40, 2025 in 30-50
DocstringScore(method) ==
    Cardinality(
        { e \in {"2015_peak", "2021_peak"} : RLt(Int2R(60), method[e]) }
        \cup { e \in {"2018_correction"} :
                   RLe(Int2R(30), method[e]) /\ RLe(method[e], Int2R(60)) }
        \cup { e \in {"2022_bottom"} : RLt(method[e], Int2R(40)) }
        \cup { e \in {"2025_current"} :
                   RLe(Int2R(30), method[e]) /\ RLe(method[e], Int2R(50)) })

\* C18: evaluate_method credits each event by the bands of its docstring
\* (2015 peak and 2021 peak above 60, 2018 correction between 30 and 60,
\* 2022 bottom below 40, 2025 current between 30 and 50); the score it
\* returns is the number of events credited and max_score is 5, for any
\* method and for the five methods of the script.
C18_DocstringBands ==
    /\ (run = "evaluate_method" /\ pc = "returned")
          => ret[1] = <<DocstringScore(args.method), 5>>
    /\ (run = "generate_benchmark_comparison" /\ results # <<>>)
          => \A i \in 1..Len(methods) :
                 LET row == results[1].performance_summary[methods[i]["name"]]
                 IN  /\ row.correct_signals = DocstringScore(methods[i])
                     /\ row.total_events = 5

\* A run of calculate_china_oct2025_real on the inputs as written
HardcodedRun ==
    InChinaRun /\ data = HardcodedData /\ ranges = HistoricalRanges

\* C19: with the hardcoded October 2025 inputs the composite score is lower
\* than the USA bubble score of 42.0, so the China_Advantage that is printed
\* ('Advantage: China (... lower risk)') and saved, USA score minus China
\* composite, is positive.
C19_ChinaBelowUSA ==
    HardcodedRun =>
        /\ composite # <<>> =>
              /\ RMul(data.USA_Bubble_Score, Int2R(100)) = Int2R(42)
              /\ RLt(composite[1], Int2R(42))
        /\ \A i \in 1..Len(printed) : RLt(Zero, printed[i].value)
        /\ \A i \in 1..Len(file) :
              RLt(Zero, file[i].comparison_usa.China_Advantage)

\* The category scores and the composite of the base case, keyed as in
\* calculate_china_oct2025_real
BaseCase ==
    [ VALUATION_SCORE |-> base_components.Valuation,
      MOMENTUM_SCORE |-> base_components.Momentum,
      CREDIT_SCORE |-> base_components.Credit,
      ECONOMY_SCORE |-> base_components.Economy,
      SENTIMENT_SCORE |-> base_components.Sentiment ]

\* C20: the base case of generate_robustness_checks (35, 60, 30, 20, 35,
\* composite 36.75, Moderate Risk) and the DBN-FBD 2025_current signal of
\* generate_benchmark_comparison are what calculate_china_oct2025_real
\* computes from its hardcoded inputs: each category score rounds to the
\* base component, the composite rounds to 36.75 and to the DBN-FBD signal,
\* and the label is Moderate Risk.
C20_BaseCaseIsChinaRun ==
    HardcodedRun =>
        /\ \A c \in DOMAIN scores : BaseCase[c] \in PyRound(scores[c], 0)
        /\ composite # <<>> =>
              /\ Dec(3675, 100) \in PyRound(composite[1], 2)
              /\ dbn_fbd["2025_current"] \in PyRound(composite[1], 2)
              /\ \E s \in calculate_bubble_score(base_components, base_weights) :
                     s \in PyRound(composite[1], 2)
        /\ risk_level # "" =>
              risk_level = SpecificationRows[1].key_finding

\* The correct_signals saved for the method called name
CorrectSignals(name) == results[1].performance_summary[name].correct_signals

Alternatives == {"CAPE-Based", "Phillips GSADF", "VIX Threshold"}

\* C21: in generate_benchmark_comparison evaluate_method gives DBN-FBD all
\* 5 of 5 events and a strictly higher score than each of the four other
\* methods, and gives Composite Average a strictly higher score than
\* CAPE-Based, Phillips GSADF and VIX Threshold, below DBN-FBD; the printed
\* performance table and the saved performance_summary both say so.
C21_BenchmarkRanking ==
    /\ (run = "generate_benchmark_comparison" /\ results # <<>>) =>
          /\ CorrectSignals("DBN-FBD (Ours)") = 5
          /\ results[1].performance_summary["DBN-FBD (Ours)"].total_events = 5
          /\ \A n \in Alternatives \cup {"Composite Average"} :
                CorrectSignals(n) < CorrectSignals("DBN-FBD (Ours)")
          /\ \A n \in Alternatives :
                CorrectSignals(n) < CorrectSignals("Composite Average")
    /\ (run = "generate_benchmark_comparison" /\ printed # <<>>) =>
          /\ printed[1].text = "DBN-FBD (Ours)"
          /\ printed[1].score = 5 /\ printed[1].max_score = 5
          /\ printed[5].text = "Composite Average"
          /\ \A i \in 2..5 : printed[i].score < printed[1].score
          /\ \A i \in 2..4 : printed[i].score < printed[5].score

\* the benchmark script has saved a performance_summary in which the five
\* methods score 5, 2, 3, 2 and 4
C21_Witness ==
    /\ InBenchmark("latex")
    /\ Len(file) = 1
    /\ [i \in 1..Len(methods) |->
           file[1].performance_summary[methods[i]["name"]].correct_signals]
          = <<5, 2, 3, 2, 4>>

\* C22: in generate_robustness_checks every specification's bubble score
\* lies within summary range / 2 of the baseline score, as the printed
\* "Variation: +-range/2 pp from baseline" says: once the deviation has
\* been computed, max_deviation <= range / 2 and so is every |s - baseline|.
C22_VariationBoundsDeviation ==
    (InRobustnessRun /\ "max_deviation" \in DOMAIN globals) =>
        LET half == RDiv(results[1].summary.range, Int2R(2))
            sc == globals["scores"]
        IN  /\ RLe(globals["max_deviation"], half)
            /\ \A i \in 1..Len(sc) :
                  RLe(RAbs(RSub(sc[i], globals["baseline_score"])), half)

Robust == "ROBUST: Variation < 15% across all specifications"
Warning == "WARNING: Some specifications show > 15% deviation"

\* The outcome for max_deviation against baseline that the comment of line
\* 166 announces: acceptable below 10% of the baseline
VerdictAtTenPercent(max_deviation, baseline) ==
    IF RLt(max_deviation, RMul(Dec(10, 100), baseline)) THEN Robust ELSE Warning

\* C23: generate_robustness_checks accepts the variation as robust only
\* when the largest absolute deviation of a specification score from the
\* baseline is below 10% of the baseline; a deviation of 10% or more
\* produces the WARNING outcome.
C23_RobustBelowTenPercent ==
    /\ (run = "check_variation" /\ pc = "returned") =>
          ret[1].text = VerdictAtTenPercent(ret[1].max_deviation,
                                            args.baseline_score)
    /\ (InRobustnessRun /\ "max_deviation" \in DOMAIN globals) =>
          printed[Len(printed)].text
            = VerdictAtTenPercent(globals["max_deviation"],
                                  globals["baseline_score"])

InComparisonRun == run = "china_vs_usa_final_comparison"
TitleDrawn == InComparisonRun /\ "suptitle" \in DOMAIN results[1]

\* C24: in china_vs_usa_final_comparison the six per-category contributions
\* plotted for each market sum to the total bubble score stated for it in
\* the title: china_scores sum to 32.5 and usa_scores sum to 42.0.
C24_ContributionsSumToTotal ==
    TitleDrawn =>
        /\ RSum(results[1]["breakdown"].China)
              = results[1]["suptitle"].China.score
        /\ RSum(results[1]["breakdown"].USA)
              = results[1]["suptitle"].USA.score
        /\ results[1]["suptitle"].China.score = Dec(325, 10)
        /\ results[1]["suptitle"].USA.score = Dec(420, 10)

\* C25: the labels in the title of china_vs_usa_final_comparison agree with
\* the risk-level thresholds of calculate_china_oct2025_real: the label of
\* each market is the risk level of its score, so 32.5 is classified
\* Moderate and 42.0 is classified Elevated.
C25_TitleLabelsFollowThresholds ==
    TitleDrawn =>
        \A market \in {"China", "USA"} :
            results[1]["suptitle"][market].label \o " Risk"
              = RiskLevelOf(results[1]["suptitle"][market].score)

\* In the out-of-sample table oos: every listed error is the absolute
\* difference of actual return and forecast, and each MAE is the mean of the
\* listed errors
ErrorsConsistent(oos) ==
    LET p == oos.periods
    IN  /\ \A i \in 1..Len(p) :
              /\ p[i].dbn_error
                    = RAbs(RSub(p[i].actual_return, p[i].dbn_forecast))
              /\ p[i].naive_error
                    = RAbs(RSub(p[i].actual_return, p[i].naive_forecast))
        /\ oos.summary.dbn_mae = Mean([i \in 1..Len(p) |-> p[i].dbn_error])
        /\ oos.summary.naive_mae = Mean([i \in 1..Len(p) |-> p[i].naive_error])

InValidationRun == run = "generate_statistical_validation"

\* C26: in the out-of-sample table of generate_statistical_validation, for
\* every period dbn_error = |actual_return - dbn_forecast| and naive_error =
\* |actual_return - naive_forecast|, and the summary dbn_mae and naive_mae
\* are the arithmetic means of the four listed dbn_error and naive_error
\* values; this holds of the table in results and of the table saved.
C26_OutOfSampleConsistent ==
    InValidationRun =>
        /\ results # <<>> => ErrorsConsistent(results[1].out_of_sample)
        /\ \A i \in 1..Len(file) : ErrorsConsistent(file[i].out_of_sample)

\* the validation script has saved its table of four periods, with the
\* MAEs 1.95 and 14.3
C26_Witness ==
    /\ InValidationRun
    /\ Len(file) = 1
    /\ Len(file[1].out_of_sample.periods) = 4
    /\ file[1].out_of_sample.summary.dbn_mae = Dec(195, 100)
    /\ file[1].out_of_sample.summary.naive_mae = Dec(143, 10)

ScriptNames ==
    { "calculate_china_oct2025_real", "generate_robustness_checks",
      "generate_benchmark_comparison", "generate_statistical_validation",
      "china_vs_usa_final_comparison" }

\* Every value of the payload has been computed: nothing is still None,
\* and the figure has all its panels and its title
Computed(payload) ==
    /\ run = "calculate_china_oct2025_real" =>
          /\ payload.bubble_analysis.risk_level = risk_level
          /\ risk_level # ""
          /\ payload.bubble_analysis.composite_bubble_score
                 \in PyRound(composite[1], 1)
    /\ run = "generate_robustness_checks" =>
          /\ payload.summary.range # <<>>
          /\ payload.summary.avg_score # <<>>
          /\ Len(payload.specifications) = Len(SpecificationOrder)
    /\ run = "generate_benchmark_comparison" =>
          DOMAIN payload.performance_summary =
              {methods[i]["name"] : i \in 1..Len(methods)}
    /\ run = "generate_statistical_validation" =>
          DOMAIN payload =
              {"granger_causality", "predictive_regression", "out_of_sample"}
    /\ run = "china_vs_usa_final_comparison" =>
          DOMAIN payload =
              {"breakdown", "valuation", "suptitle"} \cup DOMAIN OtherPanels

\* C14: each of the five scripts writes its output file exactly once per
\* run, at the end of the calculation and after every value stored in the
\* file has been computed, and no result value is changed after the write:
\* the file never holds more than one payload, a finished run has written
\* one, and once written the payload is the complete results object, which
\* stays equal to it while only the printing of tables remains.
C14_SingleWriteAtEnd ==
    run \in ScriptNames =>
        /\ Len(file) <= 1
        /\ pc = "done" => Len(file) = 1
        /\ file # <<>> =>
              /\ results = <<file[1]>>
              /\ pc \in {"latex", "done"}
              /\ Computed(file[1])

\* the robustness script, which updates its results dict in place before
\* saving it, has written the file and finished
C14_Witness ==
    /\ InRobustness("done")
    /\ Len(file) = 1
    /\ results = <<file[1]>>
    /\ file[1].summary.range # <<>>

\* The (score, label) pairs of a completed pd.cut
Binned ==
    IF run = "calculate_composite_bubble_score" /\ pc = "returned"
    THEN {<<ret[1].composite_bubble_score[r], ret[1].bubble_risk_level[r]>> :
             r \in 1..args.df.rows}
    ELSE IF run = "forecast_bubble_metrics" /\ pc = "returned"
    THEN {<<ret[1].composite_bubble_score[i], ret[1].bubble_risk_level[i]>> :
             i \in 1..Len(args.future_values)}
    ELSE {}

\* C12: a score exactly on a cutoff gets the higher bucket in
\* calculate_china_oct2025_real (strict < tests), and the lower bucket in
\* key_formulas: calculate_composite_bubble_score and
\* forecast_bubble_metrics label a score equal to the bin edge 0.3, 0.5 or
\* 0.7 Low, Medium and High, the bins being closed on the right.
C12_BoundarySemantics ==
    /\ \A p \in Labelled :
          /\ p[1] = Int2R(20) => p[2] = "Low-Moderate Risk"
          /\ p[1] = Int2R(35) => p[2] = "Moderate Risk"
          /\ p[1] = Int2R(50) => p[2] = "Elevated Risk"
          /\ p[1] = Int2R(65) => p[2] = "High Risk"
          /\ p[1] = Int2R(80) => p[2] = "Extreme Risk"
    /\ \A p \in Binned :
          /\ p[1] = Dec(3, 10) => p[2] = "Low"
          /\ p[1] = Dec(5, 10) => p[2] = "Medium"
          /\ p[1] = Dec(7, 10) => p[2] = "High"
          /\ RLt(Dec(7, 10), p[1]) => p[2] = "Critical"

\* calculate_composite_bubble_score has returned rows whose composite is
\* exactly 0.3, 0.5 and 0.7, computed from two contributing columns
C12_Witness ==
    /\ run = "calculate_composite_bubble_score"
    /\ pc = "returned"
    /\ contributing(args.df, args.category_scores) = {1, 2}
    /\ {Dec(3, 10), Dec(5, 10), Dec(7, 10)} \subseteq {p[1] : p \in Binned}

====
